---- MODULE Spec2Model ----
(***************************************************************************)
(* Model of the AtlasP2P crawler: the wire codec of                        *)
(* apps/crawler/src/protocol.py (frames, version payloads, addr payloads,  *)
(* varints) and the crawl engine described in spec.md (AddressBook,        *)
(* Scheduler).                                                             *)
(*                                                                         *)
(* Bytes are integers 0..255 and byte strings are sequences of them.       *)
(* TLC's integers are 32 bits wide, so a Python int that may exceed 2^31   *)
(* is kept as a Num: its little-endian base-256 digits without trailing    *)
(* zeros (<<>> is 0).  A 32-bit SHA-256 word is a pair <<hi, lo>> of       *)
(* 16-bit halves.                                                          *)
(***************************************************************************)
EXTENDS Integers, Sequences, FiniteSets, TLC

\* ------------------------------------------------------------------------
\* Byte strings
\* ------------------------------------------------------------------------

Byte == 0..255

\* data[a:b] of Python, 0-based, clipped to the string like a Python slice
Slice(data, a, b) ==
   LET hi == IF b < Len(data) THEN b ELSE Len(data)
   IN  IF a >= hi THEN <<>> ELSE SubSeq(data, a + 1, hi)

\* b"\x00" * n
Zeros(n) == [i \in 1..n |-> 0]

\* ------------------------------------------------------------------------
\* struct.pack / struct.unpack
\* ------------------------------------------------------------------------

\* the Num of a little-endian digit string: trailing zero bytes dropped
RECURSIVE StripZeros(_)
StripZeros(d) ==
   IF d = <<>> \/ d[Len(d)] # 0 THEN d
   ELSE StripZeros(SubSeq(d, 1, Len(d) - 1))

\* the Num of an int n, 0 <= n < 2^31
RECURSIVE NumOfInt(_)
NumOfInt(n) == IF n = 0 THEN <<>> ELSE <<n % 256>> \o NumOfInt(n \div 256)

\* the int of a Num below 2^24
IntOfNum(d) ==
   (IF Len(d) >= 1 THEN d[1] ELSE 0)
   + (IF Len(d) >= 2 THEN d[2] * 256 ELSE 0)
   + (IF Len(d) >= 3 THEN d[3] * 65536 ELSE 0)

\* n < d for an int n below 2^24 and a Num d
IntLessNum(n, d) == IF Len(d) > 3 THEN TRUE ELSE n < IntOfNum(d)

\* d > n for a Num d and an int n below 2^24
NumGreaterInt(d, n) == IntLessNum(n, d)

Reverse(b) == [i \in 1..Len(b) |-> b[Len(b) + 1 - i]]

\* struct.pack("<I", n) and "<Q", "<H" by width, for a Num that fits
pack_le(d, width) == d \o Zeros(width - Len(d))

\* struct.unpack("<I", b)[0] and "<Q", "<H": b has exactly the width
unpack_le(b) == StripZeros(b)

\* struct.pack(">H", n) / struct.unpack(">H", b)[0]
pack_be(d, width) == Reverse(pack_le(d, width))

unpack_be(b) == StripZeros(Reverse(b))

\* ------------------------------------------------------------------------
\* hashlib.sha256 (FIPS 180-4), on 32-bit words kept as <<hi16, lo16>>
\* ------------------------------------------------------------------------

XorNibble ==
   <<
      0, 1, 2, 3, 4, 5, 6, 7, 8, 9, 10, 11, 12, 13, 14, 15,
      1, 0, 3, 2, 5, 4, 7, 6, 9, 8, 11, 10, 13, 12, 15, 14,
      2, 3, 0, 1, 6, 7, 4, 5, 10, 11, 8, 9, 14, 15, 12, 13,
      3, 2, 1, 0, 7, 6, 5, 4, 11, 10, 9, 8, 15, 14, 13, 12,
      4, 5, 6, 7, 0, 1, 2, 3, 12, 13, 14, 15, 8, 9, 10, 11,
      5, 4, 7, 6, 1, 0, 3, 2, 13, 12, 15, 14, 9, 8, 11, 10,
      6, 7, 4, 5, 2, 3, 0, 1, 14, 15, 12, 13, 10, 11, 8, 9,
      7, 6, 5, 4, 3, 2, 1, 0, 15, 14, 13, 12, 11, 10, 9, 8,
      8, 9, 10, 11, 12, 13, 14, 15, 0, 1, 2, 3, 4, 5, 6, 7,
      9, 8, 11, 10, 13, 12, 15, 14, 1, 0, 3, 2, 5, 4, 7, 6,
      10, 11, 8, 9, 14, 15, 12, 13, 2, 3, 0, 1, 6, 7, 4, 5,
      11, 10, 9, 8, 15, 14, 13, 12, 3, 2, 1, 0, 7, 6, 5, 4,
      12, 13, 14, 15, 8, 9, 10, 11, 4, 5, 6, 7, 0, 1, 2, 3,
      13, 12, 15, 14, 9, 8, 11, 10, 5, 4, 7, 6, 1, 0, 3, 2,
      14, 15, 12, 13, 10, 11, 8, 9, 6, 7, 4, 5, 2, 3, 0, 1,
      15, 14, 13, 12, 11, 10, 9, 8, 7, 6, 5, 4, 3, 2, 1, 0 >>

AndNibble ==
   <<
      0, 0, 0, 0, 0, 0, 0, 0, 0, 0, 0, 0, 0, 0, 0, 0,
      0, 1, 0, 1, 0, 1, 0, 1, 0, 1, 0, 1, 0, 1, 0, 1,
      0, 0, 2, 2, 0, 0, 2, 2, 0, 0, 2, 2, 0, 0, 2, 2,
      0, 1, 2, 3, 0, 1, 2, 3, 0, 1, 2, 3, 0, 1, 2, 3,
      0, 0, 0, 0, 4, 4, 4, 4, 0, 0, 0, 0, 4, 4, 4, 4,
      0, 1, 0, 1, 4, 5, 4, 5, 0, 1, 0, 1, 4, 5, 4, 5,
      0, 0, 2, 2, 4, 4, 6, 6, 0, 0, 2, 2, 4, 4, 6, 6,
      0, 1, 2, 3, 4, 5, 6, 7, 0, 1, 2, 3, 4, 5, 6, 7,
      0, 0, 0, 0, 0, 0, 0, 0, 8, 8, 8, 8, 8, 8, 8, 8,
      0, 1, 0, 1, 0, 1, 0, 1, 8, 9, 8, 9, 8, 9, 8, 9,
      0, 0, 2, 2, 0, 0, 2, 2, 8, 8, 10, 10, 8, 8, 10, 10,
      0, 1, 2, 3, 0, 1, 2, 3, 8, 9, 10, 11, 8, 9, 10, 11,
      0, 0, 0, 0, 4, 4, 4, 4, 8, 8, 8, 8, 12, 12, 12, 12,
      0, 1, 0, 1, 4, 5, 4, 5, 8, 9, 8, 9, 12, 13, 12, 13,
      0, 0, 2, 2, 4, 4, 6, 6, 8, 8, 10, 10, 12, 12, 14, 14,
      0, 1, 2, 3, 4, 5, 6, 7, 8, 9, 10, 11, 12, 13, 14, 15 >>

SHA256_K ==
   <<
      <<17034, 12184>>, <<28983, 17553>>, <<46528, 64463>>, <<59829, 56229>>,
      <<14678, 49755>>, <<23025, 4593>>, <<37439, 33444>>, <<43804, 24277>>,
      <<55303, 43672>>, <<4739, 23297>>, <<9265, 34238>>, <<21772, 32195>>,
      <<29374, 23924>>, <<32990, 45566>>, <<39900, 1703>>, <<49563, 61812>>,
      <<58523, 27073>>, <<61374, 18310>>, <<4033, 40390>>, <<9228, 41420>>,
      <<11753, 11375>>, <<19060, 33962>>, <<23728, 43484>>, <<30457, 35034>>,
      <<38974, 20818>>, <<43057, 50797>>, <<45059, 10184>>, <<48985, 32711>>,
      <<50912, 3059>>, <<54695, 37191>>, <<1738, 25425>>, <<5161, 10599>>,
      <<10167, 2693>>, <<11803, 8504>>, <<19756, 28156>>, <<21304, 3347>>,
      <<25866, 29524>>, <<30314, 2747>>, <<33218, 51502>>, <<37490, 11397>>,
      <<41663, 59553>>, <<43034, 26187>>, <<49739, 35696>>, <<51052, 20899>>,
      <<53650, 59417>>, <<54937, 1572>>, <<62478, 13701>>, <<4202, 41072>>,
      <<6564, 49430>>, <<7735, 27656>>, <<10056, 30540>>, <<13488, 48309>>,
      <<14620, 3251>>, <<20184, 43594>>, <<23452, 51791>>, <<26670, 28659>>,
      <<29839, 33518>>, <<30885, 25455>>, <<33992, 30740>>, <<36039, 520>>,
      <<37054, 65530>>, <<42064, 27883>>, <<48889, 41975>>, <<50801, 30962>> >>

SHA256_H0 ==
   <<
      <<27145, 58983>>, <<47975, 44677>>, <<15470, 62322>>, <<42319, 62778>>,
      <<20750, 21119>>, <<39685, 26764>>, <<8067, 55723>>, <<23520, 52505>> >>

Xor16(a, b) ==
     XorNibble[(a \div 4096) * 16 + (b \div 4096) + 1] * 4096
   + XorNibble[((a \div 256) % 16) * 16 + ((b \div 256) % 16) + 1] * 256
   + XorNibble[((a \div 16) % 16) * 16 + ((b \div 16) % 16) + 1] * 16
   + XorNibble[(a % 16) * 16 + (b % 16) + 1]

And16(a, b) ==
     AndNibble[(a \div 4096) * 16 + (b \div 4096) + 1] * 4096
   + AndNibble[((a \div 256) % 16) * 16 + ((b \div 256) % 16) + 1] * 256
   + AndNibble[((a \div 16) % 16) * 16 + ((b \div 16) % 16) + 1] * 16
   + AndNibble[(a % 16) * 16 + (b % 16) + 1]

Xor32(x, y) == << Xor16(x[1], y[1]), Xor16(x[2], y[2]) >>

And32(x, y) == << And16(x[1], y[1]), And16(x[2], y[2]) >>

Not32(x) == << 65535 - x[1], 65535 - x[2] >>

Add32(x, y) ==
   LET lo == x[2] + y[2]
   IN  << (x[1] + y[1] + (lo \div 65536)) % 65536, lo % 65536 >>

\* rotate right by n, 0 < n < 32
Rotr32(x, n) ==
   LET hi == IF n < 16 THEN x[1] ELSE x[2]
       lo == IF n < 16 THEN x[2] ELSE x[1]
       k  == n % 16
       p  == 2 ^ k
       q  == 2 ^ (16 - k)
   IN  IF k = 0 THEN << hi, lo >>
       ELSE << (hi \div p) + (lo % p) * q, (lo \div p) + (hi % p) * q >>

\* shift right by n, 0 < n < 16
Shr32(x, n) ==
   LET p == 2 ^ n
       q == 2 ^ (16 - n)
   IN  << x[1] \div p, (x[2] \div p) + (x[1] % p) * q >>

SmallSigma0(x) == Xor32(Xor32(Rotr32(x, 7), Rotr32(x, 18)), Shr32(x, 3))

SmallSigma1(x) == Xor32(Xor32(Rotr32(x, 17), Rotr32(x, 19)), Shr32(x, 10))

BigSigma0(x) == Xor32(Xor32(Rotr32(x, 2), Rotr32(x, 13)), Rotr32(x, 22))

BigSigma1(x) == Xor32(Xor32(Rotr32(x, 6), Rotr32(x, 11)), Rotr32(x, 25))

Ch(x, y, z) == Xor32(And32(x, y), And32(Not32(x), z))

Maj(x, y, z) == Xor32(Xor32(And32(x, y), And32(x, z)), And32(y, z))

\* the message with the 1 bit, the zero padding and the 64-bit big-endian
\* bit length appended (messages here are far shorter than 2^21 bytes)
Sha256Pad(m) ==
   LET n    == Len(m)
       k    == (119 - (n % 64)) % 64
       bits == n * 8
   IN  m \o <<128>> \o Zeros(k) \o Zeros(5)
         \o << (bits \div 65536) % 256, (bits \div 256) % 256, bits % 256 >>

\* the 16 big-endian words of block number b (from 0) of the padded message
Sha256Block(p, b) ==
   [i \in 1..16 |->
      << p[64 * b + 4 * i - 3] * 256 + p[64 * b + 4 * i - 2],
         p[64 * b + 4 * i - 1] * 256 + p[64 * b + 4 * i] >>]

\* the message schedule W[1..64] grown from the 16 words of a block
RECURSIVE Sha256Schedule(_)
Sha256Schedule(w) ==
   IF Len(w) = 64 THEN w
   ELSE LET t == Len(w) + 1
        IN  Sha256Schedule(Append(w,
               Add32(Add32(SmallSigma1(w[t - 2]), w[t - 7]),
                     Add32(SmallSigma0(w[t - 15]), w[t - 16]))))

\* the rounds still to do, on s = [t |-> next round, v |-> the working
\* variables <<a, b, c, d, e, f, g, h>>]
RECURSIVE Sha256Rounds(_, _)
Sha256Rounds(s, w) ==
   IF s.t > 64 THEN s.v
   ELSE LET v  == s.v
            t1 == Add32(Add32(Add32(v[8], BigSigma1(v[5])),
                              Add32(Ch(v[5], v[6], v[7]), SHA256_K[s.t])), w[s.t])
            t2 == Add32(BigSigma0(v[1]), Maj(v[1], v[2], v[3]))
        IN  Sha256Rounds([t |-> s.t + 1,
                          v |-> << Add32(t1, t2), v[1], v[2], v[3],
                                   Add32(v[4], t1), v[5], v[6], v[7] >>], w)

Sha256Compress(h, block) ==
   LET v == Sha256Rounds([t |-> 1, v |-> h], Sha256Schedule(block))
   IN  [i \in 1..8 |-> Add32(h[i], v[i])]

RECURSIVE Sha256Blocks(_, _, _)
Sha256Blocks(h, p, b) ==
   IF 64 * b >= Len(p) THEN h
   ELSE Sha256Blocks(Sha256Compress(h, Sha256Block(p, b)), p, b + 1)

\* hashlib.sha256(data).digest(): 32 bytes
sha256(data) ==
   LET h == Sha256Blocks(SHA256_H0, Sha256Pad(data), 0)
   IN  [i \in 1..32 |->
          LET w == h[(i + 3) \div 4]
              j == (i - 1) % 4
          IN  IF j = 0 THEN w[1] \div 256
              ELSE IF j = 1 THEN w[1] % 256
              ELSE IF j = 2 THEN w[2] \div 256
              ELSE w[2] % 256]

double_sha256(data) == sha256(sha256(data))


\* ------------------------------------------------------------------------
\* protocol.py: frames
\* ------------------------------------------------------------------------

\* "version", "addr" and a command that fills the 12 bytes
CmdVersion == <<118, 101, 114, 115, 105, 111, 110>>

CmdAddr == <<97, 100, 100, 114>>

CmdTwelve == <<97, 98, 99, 100, 101, 102, 103, 104, 105, 106, 107, 108>>

\* Exceptions are results [ok |-> FALSE, err |-> <message or exception>]
Raise(e) == [ok |-> FALSE, err |-> e]

\* bytes.rstrip(b"\x00")
rstrip_nul(b) == StripZeros(b)

\* bytes.ljust(n, b"\x00"): pads, never truncates
ljust_nul(b, n) == IF Len(b) >= n THEN b ELSE b \o Zeros(n - Len(b))

\* str.encode("ascii") / bytes.decode("ascii") succeed on codes below 128
\* and keep them; a str is the sequence of its code points
IsAscii(b) == \A i \in 1..Len(b) : b[i] < 128

\* create_message with the length packed big-endian (">I")
create_message_big_endian(magic, command, payload) ==
   LET command_bytes == ljust_nul(command, 12)
       length        == pack_be(NumOfInt(Len(payload)), 4)
       checksum      == Slice(double_sha256(payload), 0, 4)
   IN  magic \o command_bytes \o length \o checksum \o payload

\* create_message, for an ASCII command and a payload shorter than 2^31
create_message(magic, command, payload) ==
   LET command_bytes == ljust_nul(command, 12)
       length        == pack_le(NumOfInt(Len(payload)), 4)
       checksum      == Slice(double_sha256(payload), 0, 4)
   IN  magic \o command_bytes \o length \o checksum \o payload

\* parse_message without the checksum comparison
parse_message_unverified(data, magic) ==
   IF Len(data) < 24 THEN Raise("Message too short")
   ELSE IF Slice(data, 0, 4) # magic THEN Raise("Invalid magic bytes")
   ELSE IF ~IsAscii(rstrip_nul(Slice(data, 4, 16))) THEN Raise("UnicodeDecodeError")
   ELSE
     LET command  == rstrip_nul(Slice(data, 4, 16))
         length   == unpack_le(Slice(data, 16, 20))
     IN  IF IntLessNum(Len(data) - 24, length) THEN Raise("Incomplete message")
         ELSE [ok |-> TRUE, command |-> command,
               payload |-> Slice(data, 24, 24 + IntOfNum(length)),
               rest |-> Slice(data, 24 + IntOfNum(length), Len(data))]

\* parse_message looking at the declared length before the magic
parse_message_length_first(data, magic) ==
   IF Len(data) < 24 THEN Raise("Message too short")
   ELSE IF IntLessNum(Len(data) - 24, unpack_le(Slice(data, 16, 20)))
     THEN Raise("Incomplete message")
   ELSE IF Slice(data, 0, 4) # magic THEN Raise("Invalid magic bytes")
   ELSE IF ~IsAscii(rstrip_nul(Slice(data, 4, 16))) THEN Raise("UnicodeDecodeError")
   ELSE
     LET command  == rstrip_nul(Slice(data, 4, 16))
         length   == unpack_le(Slice(data, 16, 20))
         checksum == Slice(data, 20, 24)
         payload  == Slice(data, 24, 24 + IntOfNum(length))
     IN  IF Slice(double_sha256(payload), 0, 4) # checksum
           THEN Raise("Invalid checksum")
         ELSE [ok |-> TRUE, command |-> command, payload |-> payload,
               rest |-> Slice(data, 24 + IntOfNum(length), Len(data))]

\* parse_message verifying the checksum of the bytes it has before it knows
\* the payload is complete
parse_message_checksum_first(data, magic) ==
   IF Len(data) < 24 THEN Raise("Message too short")
   ELSE IF Slice(data, 0, 4) # magic THEN Raise("Invalid magic bytes")
   ELSE IF ~IsAscii(rstrip_nul(Slice(data, 4, 16))) THEN Raise("UnicodeDecodeError")
   ELSE
     LET command  == rstrip_nul(Slice(data, 4, 16))
         length   == unpack_le(Slice(data, 16, 20))
         checksum == Slice(data, 20, 24)
         payload  == Slice(data, 24, 24 + IntOfNum(length))
     IN  IF Slice(double_sha256(payload), 0, 4) # checksum
           THEN Raise("Invalid checksum")
         ELSE IF IntLessNum(Len(data) - 24, length) THEN Raise("Incomplete message")
         ELSE [ok |-> TRUE, command |-> command, payload |-> payload,
               rest |-> Slice(data, 24 + IntOfNum(length), Len(data))]

\* parse_message on a buffer shorter than 2^24 bytes: the triple
\* (command, payload, remaining_data), or the ValueError raised
parse_message(data, magic) ==
   IF Len(data) < 24 THEN Raise("Message too short")
   ELSE IF Slice(data, 0, 4) # magic THEN Raise("Invalid magic bytes")
   ELSE IF ~IsAscii(rstrip_nul(Slice(data, 4, 16))) THEN Raise("UnicodeDecodeError")
   ELSE
     LET command  == rstrip_nul(Slice(data, 4, 16))
         length   == unpack_le(Slice(data, 16, 20))
         checksum == Slice(data, 20, 24)
     IN  IF IntLessNum(Len(data) - 24, length) THEN Raise("Incomplete message")
         ELSE LET payload == Slice(data, 24, 24 + IntOfNum(length))
              IN  IF Slice(double_sha256(payload), 0, 4) # checksum
                    THEN Raise("Invalid checksum")
                  ELSE [ok |-> TRUE, command |-> command, payload |-> payload,
                        rest |-> Slice(data, 24 + IntOfNum(length), Len(data))]

\* ------------------------------------------------------------------------
\* protocol.py: version payloads
\* ------------------------------------------------------------------------

SERVICES_NODE_NETWORK == 1

\* An IP text is kept as the address it denotes and its notation: a
\* dotted quad [fam |-> "v4", b |-> 4 bytes] or an IPv6 text
\* [fam |-> "v6", b |-> 16 bytes].  socket.inet_pton reads the bytes of the
\* text, socket.inet_ntoa / inet_ntop write the text of the bytes.
inet_pton(text) == text.b

inet_ntoa(b) == [fam |-> "v4", b |-> b]

inet_ntop6(b) == [fam |-> "v6", b |-> b]

\* ":" in recv_ip
HasColon(text) == text.fam = "v6"

\* None and a present value of an Optional field
None == <<>>

Some(x) == <<x>>

NetAddr(services, ip, port, timestamp) ==
   [services |-> services, ip |-> ip, port |-> port, timestamp |-> timestamp]

\* "NodesCrawler:0.1.0/"
UserAgentSuffix ==
   << 78, 111, 100, 101, 115, 67, 114, 97, 119, 108, 101, 114, 58,
      48, 46, 49, 46, 48, 47 >>

\* f"/{chain_config.name}NodesCrawler:0.1.0/".encode("utf-8"), ASCII name
user_agent_bytes(name) == <<47>> \o name \o UserAgentSuffix

\* bytes.decode("utf-8", errors="replace") on bytes that are ASCII, stray
\* continuation bytes (0x80..0xBF) or bytes no UTF-8 sequence contains
\* (0xF5..0xFF): each of the latter two becomes U+FFFD
utf8_decode_replace(b) == [i \in 1..Len(b) |-> IF b[i] < 128 THEN b[i] ELSE 65533]

\* struct.unpack("<q", b)[0]: the signed value, kept as its sign and the
\* Num of the unsigned reading (the value is that Num minus 2^64 when neg)
unpack_q(b) == [neg |-> b[8] >= 128, twos |-> unpack_le(b)]

\* the version payload create_version_message builds from the chain's
\* protocol_version, recv_ip, recv_port, start_height, int(time.time())
\* and random.getrandbits(64), with the user agent bytes ua
version_payload(protocol_version, recv_ip, recv_port, start_height, timestamp, nonce, ua) ==
   pack_le(NumOfInt(protocol_version), 4)
   \o pack_le(NumOfInt(SERVICES_NODE_NETWORK), 8)
   \o pack_le(timestamp, 8)
   \o pack_le(NumOfInt(SERVICES_NODE_NETWORK), 8)
   \o (IF HasColon(recv_ip) THEN inet_pton(recv_ip)
       ELSE Zeros(10) \o <<255, 255>> \o inet_pton(recv_ip))
   \o pack_be(NumOfInt(recv_port), 2)
   \o pack_le(NumOfInt(SERVICES_NODE_NETWORK), 8)
   \o Zeros(10) \o <<255, 255>> \o inet_pton([fam |-> "v4", b |-> <<0, 0, 0, 0>>])
   \o pack_be(NumOfInt(0), 2)
   \o pack_le(nonce, 8)
   \o << Len(ua) >>
   \o ua
   \o pack_le(NumOfInt(start_height), 4)
   \o <<1>>

\* create_version_message: the framed message, or the struct.error of
\* struct.pack("<B", len(user_agent_bytes)) above 255
create_version_message(chain_config, recv_ip, recv_port, start_height, timestamp, nonce) ==
   LET ua == user_agent_bytes(chain_config.name)
   IN  IF Len(ua) > 255 THEN Raise("struct.error")
       ELSE [ok |-> TRUE,
             msg |-> create_message(chain_config.magic_bytes, CmdVersion,
                        version_payload(chain_config.protocol_version, recv_ip,
                                        recv_port, start_height, timestamp,
                                        nonce, ua))]

\* parse_version_payload: the VersionPayload, or the exception raised
parse_version_payload(payload) ==
   IF Len(payload) < 20 THEN Raise("struct.error")
   ELSE IF Len(payload) < 28 THEN Raise("struct.error")
   ELSE IF Len(payload) < 44 THEN Raise("OSError")
   ELSE IF Len(payload) < 46 THEN Raise("struct.error")
   ELSE IF Len(payload) < 54 THEN Raise("struct.error")
   ELSE IF Len(payload) < 70 THEN Raise("OSError")
   ELSE IF Len(payload) < 72 THEN Raise("struct.error")
   ELSE IF Len(payload) < 80 THEN Raise("struct.error")
   ELSE IF Len(payload) < 81 THEN Raise("IndexError")
   ELSE
     LET version        == unpack_le(Slice(payload, 0, 4))
         services       == unpack_le(Slice(payload, 4, 12))
         timestamp      == unpack_q(Slice(payload, 12, 20))
         recv_services  == unpack_le(Slice(payload, 20, 28))
         recv_ip        == inet_ntoa(Slice(payload, 28 + 12, 28 + 16))
         recv_port      == IntOfNum(unpack_be(Slice(payload, 44, 46)))
         from_services  == unpack_le(Slice(payload, 46, 54))
         from_ip        == inet_ntoa(Slice(payload, 54 + 12, 54 + 16))
         from_port      == IntOfNum(unpack_be(Slice(payload, 70, 72)))
         nonce          == unpack_le(Slice(payload, 72, 80))
         user_agent_len == payload[81]
         offset         == 81 + user_agent_len
         user_agent     == utf8_decode_replace(Slice(payload, 81, offset))
     IN  IF Len(Slice(payload, offset, offset + 4)) # 4 THEN Raise("struct.error")
         ELSE [ok           |-> TRUE,
               version      |-> version,
               services     |-> services,
               timestamp    |-> timestamp,
               addr_recv    |-> NetAddr(recv_services, recv_ip, recv_port, None),
               addr_from    |-> NetAddr(from_services, from_ip, from_port, None),
               nonce        |-> nonce,
               user_agent   |-> user_agent,
               start_height |-> unpack_le(Slice(payload, offset, offset + 4)),
               relay        |-> IF offset + 4 < Len(payload)
                                  THEN payload[offset + 4 + 1] # 0
                                  ELSE TRUE]

\* ------------------------------------------------------------------------
\* protocol.py: varints and addr payloads
\* ------------------------------------------------------------------------

\* read_varint with the 0xFD form skipped as if it were 2 bytes long
read_varint_short_skip(data, offset) ==
   IF offset >= Len(data) THEN Raise("IndexError")
   ELSE LET first_byte == data[offset + 1]
        IN  IF first_byte < 253
              THEN [ok |-> TRUE, value |-> NumOfInt(first_byte), offset |-> offset + 1]
            ELSE IF first_byte = 253
              THEN IF Len(Slice(data, offset + 1, offset + 3)) # 2
                     THEN Raise("struct.error")
                   ELSE [ok |-> TRUE,
                         value |-> unpack_le(Slice(data, offset + 1, offset + 3)),
                         offset |-> offset + 2]
            ELSE IF first_byte = 254
              THEN IF Len(Slice(data, offset + 1, offset + 5)) # 4
                     THEN Raise("struct.error")
                   ELSE [ok |-> TRUE,
                         value |-> unpack_le(Slice(data, offset + 1, offset + 5)),
                         offset |-> offset + 5]
            ELSE IF Len(Slice(data, offset + 1, offset + 9)) # 8
                   THEN Raise("struct.error")
                 ELSE [ok |-> TRUE,
                       value |-> unpack_le(Slice(data, offset + 1, offset + 9)),
                       offset |-> offset + 9]

\* read_varint(data, offset), offset >= 0: the pair (value, new offset), or
\* the IndexError of data[offset] / the struct.error of a short slice
read_varint(data, offset) ==
   IF offset >= Len(data) THEN Raise("IndexError")
   ELSE LET first_byte == data[offset + 1]
        IN  IF first_byte < 253
              THEN [ok |-> TRUE, value |-> NumOfInt(first_byte), offset |-> offset + 1]
            ELSE IF first_byte = 253
              THEN IF Len(Slice(data, offset + 1, offset + 3)) # 2
                     THEN Raise("struct.error")
                   ELSE [ok |-> TRUE,
                         value |-> unpack_le(Slice(data, offset + 1, offset + 3)),
                         offset |-> offset + 3]
            ELSE IF first_byte = 254
              THEN IF Len(Slice(data, offset + 1, offset + 5)) # 4
                     THEN Raise("struct.error")
                   ELSE [ok |-> TRUE,
                         value |-> unpack_le(Slice(data, offset + 1, offset + 5)),
                         offset |-> offset + 5]
            ELSE IF Len(Slice(data, offset + 1, offset + 9)) # 8
                   THEN Raise("struct.error")
                 ELSE [ok |-> TRUE,
                       value |-> unpack_le(Slice(data, offset + 1, offset + 9)),
                       offset |-> offset + 9]

\* b"\x00" * 10 + b"\xff\xff"
MappedPrefix == Zeros(10) \o <<255, 255>>

\* the ip of an addr entry with every address written as IPv6 text
addr_ip_unmapped(ip_bytes) == inet_ntop6(ip_bytes)

\* the ip of an addr entry: IPv4 text for an IPv4-mapped address, IPv6
\* text otherwise
addr_ip(ip_bytes) ==
   IF Slice(ip_bytes, 0, 12) = MappedPrefix
     THEN inet_ntoa(Slice(ip_bytes, 12, 16))
     ELSE inet_ntop6(ip_bytes)

\* the loop of parse_addr_payload from entry number i (from 0) at offset
RECURSIVE addr_entries(_, _, _, _)
addr_entries(payload, offset, i, count) ==
   IF ~IntLessNum(i, count) THEN <<>>
   ELSE IF offset + 30 > Len(payload) THEN <<>>
   ELSE << NetAddr(unpack_le(Slice(payload, offset + 4, offset + 12)),
                   addr_ip(Slice(payload, offset + 12, offset + 28)),
                   IntOfNum(unpack_be(Slice(payload, offset + 28, offset + 30))),
                   Some(unpack_le(Slice(payload, offset, offset + 4)))) >>
        \o addr_entries(payload, offset + 30, i + 1, count)

\* parse_addr_payload: the list of NetAddr, or what read_varint raised
parse_addr_payload(payload) ==
   LET c == read_varint(payload, 0)
   IN  IF ~c.ok THEN c
       ELSE [ok |-> TRUE, addresses |-> addr_entries(payload, c.offset, 0, c.value)]

\* ------------------------------------------------------------------------
\* The wire format a peer follows (spec.md 4.1): varint, var_str, version
\* ------------------------------------------------------------------------

\* the Bitcoin varint of an int n below 2^31
write_varint(n) ==
   IF n < 253 THEN <<n>>
   ELSE IF n < 65536 THEN <<253>> \o pack_le(NumOfInt(n), 2)
   ELSE <<254>> \o pack_le(NumOfInt(n), 4)

\* a version payload as a peer sends it: the user agent as a var_str, the
\* relay byte present or not (relay is <<>> or <<byte>>)
peer_version_payload(version, recv_ip4, recv_port, nonce, ua, start_height, relay) ==
   pack_le(NumOfInt(version), 4)
   \o pack_le(NumOfInt(SERVICES_NODE_NETWORK), 8)
   \o pack_le(NumOfInt(1700000000), 8)
   \o pack_le(NumOfInt(SERVICES_NODE_NETWORK), 8)
   \o Zeros(10) \o <<255, 255>> \o recv_ip4
   \o pack_be(NumOfInt(recv_port), 2)
   \o pack_le(NumOfInt(SERVICES_NODE_NETWORK), 8)
   \o Zeros(10) \o <<255, 255>> \o <<0, 0, 0, 0>>
   \o pack_be(NumOfInt(0), 2)
   \o pack_le(nonce, 8)
   \o write_varint(Len(ua))
   \o ua
   \o pack_le(NumOfInt(start_height), 4)
   \o relay

\* an addr entry as a peer sends it: 4-byte timestamp, services, the
\* address as 16 bytes (IPv4 in the ::ffff:0:0/96 form), big-endian port
peer_addr_entry(ip, port) ==
   pack_le(NumOfInt(1700000000), 4)
   \o pack_le(NumOfInt(SERVICES_NODE_NETWORK), 8)
   \o (IF ip.fam = "v4" THEN MappedPrefix \o ip.b ELSE ip.b)
   \o pack_be(NumOfInt(port), 2)

RECURSIVE Concat(_)
Concat(ss) == IF ss = <<>> THEN <<>> ELSE Head(ss) \o Concat(Tail(ss))

\* an addr payload: the varint count, then the entries of the endpoints
peer_addr_payload(endpoints) ==
   write_varint(Len(endpoints))
   \o Concat([i \in 1..Len(endpoints) |->
                 peer_addr_entry(endpoints[i].ip, endpoints[i].port)])

\* ------------------------------------------------------------------------
\* AddressBook (spec.md 3, 4.3) and the outcome of a PeerSession (4.2, 7)
\* ------------------------------------------------------------------------

Endpoint(ip, port) == [ip |-> ip, port |-> port]

\* IPv6 ::ffff:a.b.c.d down to IPv4 a.b.c.d; any other text as it is
canonicalize(ip) ==
   IF ip.fam = "v6" /\ Slice(ip.b, 0, 12) = MappedPrefix
     THEN [fam |-> "v4", b |-> Slice(ip.b, 12, 16)]
     ELSE ip

\* private, loopback, multicast or reserved
is_unroutable(ip) ==
   IF ip.fam = "v4"
     THEN \/ ip.b[1] \in {0, 10, 127}
          \/ ip.b[1] >= 224
          \/ ip.b[1] = 192 /\ ip.b[2] = 168
          \/ ip.b[1] = 172 /\ ip.b[2] \in 16..31
          \/ ip.b[1] = 169 /\ ip.b[2] = 254
     ELSE \/ ip.b = Zeros(16)
          \/ ip.b = Zeros(15) \o <<1>>
          \/ ip.b[1] = 255
          \/ ip.b[1] \in {252, 253}
          \/ ip.b[1] = 254 /\ ip.b[2] \in 128..191

\* the total of admissions after which admit answers 'saturated'
admission_cap == 3

\* a new Candidate
Unprobed == [state |-> "unprobed", attempts |-> 0, last_error |-> "none"]

\* admit that takes a known endpoint for a new one: it puts the Candidate
\* back to unprobed and on the FIFO
admit_requeue(ab, endpoint, source) ==
   LET e == Endpoint(canonicalize(endpoint.ip), endpoint.port)
   IN  IF e.port = 0 THEN ab
       ELSE IF is_unroutable(e.ip) /\ source # "manual" THEN ab
       ELSE IF ab.admissions >= admission_cap /\ e \notin DOMAIN ab.book THEN ab
       ELSE [book |-> [x \in DOMAIN ab.book \cup {e} |->
                          IF x = e THEN Unprobed ELSE ab.book[x]],
             fifo |-> Append(ab.fifo, e),
             admissions |-> ab.admissions + 1]

\* admit(endpoint, source) on ab = [book, fifo, admissions]
admit(ab, endpoint, source) ==
   LET e == Endpoint(canonicalize(endpoint.ip), endpoint.port)
   IN  IF e.port = 0 THEN ab
       ELSE IF is_unroutable(e.ip) /\ source # "manual" THEN ab
       ELSE IF e \in DOMAIN ab.book THEN ab
       ELSE IF ab.admissions >= admission_cap THEN ab
       ELSE [book |-> [x \in DOMAIN ab.book \cup {e} |->
                          IF x = e THEN Unprobed ELSE ab.book[x]],
             fifo |-> Append(ab.fifo, e),
             admissions |-> ab.admissions + 1]

\* the self-advertisement filter: the crawler's own external IP and the
\* addr_recv the peer sent back
is_self(ip, own_ips) == canonicalize(ip) \in own_ips

\* admit each learned NetAddr that passes the filter, in order
RECURSIVE admit_learned(_, _, _)
admit_learned(ab, learned, own_ips) ==
   IF learned = <<>> THEN ab
   ELSE CHOOSE r \in
           { admit_learned(next, Tail(learned), own_ips) :
                next \in { IF is_self(Head(learned).ip, own_ips) THEN ab
                           ELSE admit(ab, Endpoint(Head(learned).ip,
                                                   Head(learned).port), "addr") } } :
           TRUE

\* the FIFO after claim() has taken its head, and with the head left on it
fifo_keep(fifo) == fifo

fifo_pop(fifo) == Tail(fifo)

\* the retries after the first attempt
max_retries == 1

RetryableKinds == {"connect-timeout"}

\* the classification with one retry more than max_retries
classify_one_more(kind, attempts) ==
   IF kind = "ok" THEN "reachable"
   ELSE IF kind = "below-minimum-version" THEN "stale"
   ELSE IF kind \in RetryableKinds /\ attempts < max_retries + 2 THEN "unprobed"
   ELSE "unreachable"

\* the classification report() gives a Candidate at its attempt number
\* attempts for an outcome of this kind; "unprobed" is a retry on the
\* delay queue
classify(kind, attempts) ==
   IF kind = "ok" THEN "reachable"
   ELSE IF kind = "below-minimum-version" THEN "stale"
   ELSE IF kind \in RetryableKinds /\ attempts < max_retries + 1 THEN "unprobed"
   ELSE "unreachable"

\* ------------------------------------------------------------------------
\* config.py: load_config
\* ------------------------------------------------------------------------

\* Values of the YAML file and of the CrawlerConfig: int n, float in tenths,
\* list of values, bool
IntV(n) == [t |-> "int", v |-> n]

FloatV(tenths) == [t |-> "float", v |-> tenths]

ListV(l) == [t |-> "list", v |-> l]

BoolV(b) == [t |-> "bool", v |-> b]

\* the decimal digits of n >= 0 as text
RECURSIVE Digits(_)
Digits(n) == IF n < 10 THEN <<48 + n>> ELSE Digits(n \div 10) \o <<48 + (n % 10)>>

\* str(value) of an int or a float
str(value) ==
   IF value.t = "int"
     THEN IF value.v < 0 THEN <<45>> \o Digits(-value.v) ELSE Digits(value.v)
     ELSE (IF value.v < 0 THEN <<45>> ELSE <<>>)
          \o Digits((IF value.v < 0 THEN -value.v ELSE value.v) \div 10)
          \o <<46>>
          \o Digits((IF value.v < 0 THEN -value.v ELSE value.v) % 10)

IsDigits(text) == text # <<>> /\ \A i \in 1..Len(text) : text[i] \in 48..57

\* the number written by digits
RECURSIVE NatOfDigits(_)
NatOfDigits(text) ==
   IF text = <<>> THEN 0
   ELSE 10 * NatOfDigits(SubSeq(text, 1, Len(text) - 1)) + (text[Len(text)] - 48)

\* int(text) of a text without blanks, '+' or '_'
int(text) ==
   IF text # <<>> /\ text[1] = 45 /\ IsDigits(Tail(text))
     THEN [ok |-> TRUE, v |-> -NatOfDigits(Tail(text))]
   ELSE IF IsDigits(text) THEN [ok |-> TRUE, v |-> NatOfDigits(text)]
   ELSE Raise("ValueError")

\* float(text) of a text "d", "-d", "d.d" or "-d.d" with one decimal, in
\* tenths
float(text) ==
   LET neg == text # <<>> /\ text[1] = 45
       body == IF neg THEN Tail(text) ELSE text
       dot == { i \in 1..Len(body) : body[i] = 46 }
       sign == IF neg THEN -1 ELSE 1
   IN  IF IsDigits(body) THEN [ok |-> TRUE, v |-> sign * 10 * NatOfDigits(body)]
       ELSE IF /\ dot = {Len(body) - 1}
               /\ IsDigits(SubSeq(body, 1, Len(body) - 2))
               /\ IsDigits(SubSeq(body, Len(body), Len(body)))
         THEN [ok |-> TRUE,
               v |-> sign * (10 * NatOfDigits(SubSeq(body, 1, Len(body) - 2))
                             + NatOfDigits(SubSeq(body, Len(body), Len(body))))]
       ELSE Raise("ValueError")

\* the variables load_config reads for the crawler settings
EnvNames ==
   { "PRUNE_AFTER_HOURS", "CRAWLER_INTERVAL_MINUTES", "MAX_CONCURRENT_CONNECTIONS",
     "CONNECTION_TIMEOUT_SECONDS", "EXTENDED_TIMEOUT_SECONDS", "MAX_RETRIES",
     "INITIAL_RETRY_DELAY_SECONDS", "RETRY_BACKOFF_MULTIPLIER", "GETADDR_DELAY_MS" }

\* the keys of the crawlerConfig section
YamlKeys ==
   { "pruneAfterHours", "scanIntervalMinutes", "maxConcurrentConnections",
     "connectionTimeoutSeconds", "extendedTimeoutSeconds", "maxRetries",
     "initialRetryDelaySeconds", "retryBackoffMultiplier",
     "fallbackProtocolVersions", "requireVersionForSave", "getaddr_delay_ms" }

\* os.getenv(name, default) on env, a function from EnvNames to None or
\* Some(text)
getenv(env, name, default) == IF env[name] = None THEN default ELSE env[name][1]

\* crawler_yaml.get(key, default)
yaml_get(crawler_yaml, key, default) ==
   IF crawler_yaml[key] = None THEN default ELSE crawler_yaml[key][1]

\* what load_crawler_config_from_yaml returns when no file is found
YamlDefaults ==
   [k \in YamlKeys |->
      IF k = "pruneAfterHours" THEN Some(IntV(168))
      ELSE IF k = "scanIntervalMinutes" THEN Some(IntV(5))
      ELSE IF k = "maxConcurrentConnections" THEN Some(IntV(100))
      ELSE IF k = "connectionTimeoutSeconds" THEN Some(IntV(10))
      ELSE IF k = "extendedTimeoutSeconds" THEN Some(IntV(30))
      ELSE IF k = "maxRetries" THEN Some(IntV(3))
      ELSE IF k = "initialRetryDelaySeconds" THEN Some(IntV(1))
      ELSE IF k = "retryBackoffMultiplier" THEN Some(IntV(2))
      ELSE IF k = "fallbackProtocolVersions" THEN Some(ListV(<<>>))
      ELSE IF k = "requireVersionForSave" THEN Some(BoolV(TRUE))
      ELSE None]

\* load_crawler_config_from_yaml: file is None (no file found) or
\* Some(the crawlerConfig section)
load_crawler_config_from_yaml(file) == IF file = None THEN YamlDefaults ELSE file[1]

\* int(os.getenv(name, str(crawler_yaml.get(key, default))))
int_setting(env, crawler_yaml, name, key, default) ==
   int(getenv(env, name, str(yaml_get(crawler_yaml, key, IntV(default)))))

\* float(os.getenv(name, str(crawler_yaml.get(key, default))))
float_setting(env, crawler_yaml, name, key, default) ==
   float(getenv(env, name, str(yaml_get(crawler_yaml, key, IntV(default)))))

\* load_config(): the crawler settings of the CrawlerConfig, or the
\* ValueError raised; maxRetries above 10 only prints a warning
load_config(env, file) ==
   LET y == load_crawler_config_from_yaml(file)
       prune == int_setting(env, y, "PRUNE_AFTER_HOURS", "pruneAfterHours", 168)
       interval == int_setting(env, y, "CRAWLER_INTERVAL_MINUTES", "scanIntervalMinutes", 5)
       maxc == int_setting(env, y, "MAX_CONCURRENT_CONNECTIONS", "maxConcurrentConnections", 100)
       conn == int_setting(env, y, "CONNECTION_TIMEOUT_SECONDS", "connectionTimeoutSeconds", 10)
       ext == int_setting(env, y, "EXTENDED_TIMEOUT_SECONDS", "extendedTimeoutSeconds", 30)
       retries == int_setting(env, y, "MAX_RETRIES", "maxRetries", 3)
       initial == float_setting(env, y, "INITIAL_RETRY_DELAY_SECONDS", "initialRetryDelaySeconds", 1)
       mult == float_setting(env, y, "RETRY_BACKOFF_MULTIPLIER", "retryBackoffMultiplier", 2)
       fallback == yaml_get(y, "fallbackProtocolVersions", ListV(<<>>))
       require == yaml_get(y, "requireVersionForSave", BoolV(TRUE))
       getaddr == int(getenv(env, "GETADDR_DELAY_MS", <<49, 48, 48>>))
   IN  IF \E c \in {prune, interval, maxc, conn, ext, retries, initial, mult} : ~c.ok
         THEN Raise("ValueError: invalid literal")
       ELSE IF retries.v < 0 THEN Raise("ValueError: maxRetries must be >= 0")
       ELSE IF conn.v <= 0 THEN Raise("ValueError: connectionTimeoutSeconds must be > 0")
       ELSE IF ext.v < conn.v
         THEN Raise("ValueError: extendedTimeoutSeconds must be >= connectionTimeoutSeconds")
       ELSE IF initial.v <= 0 THEN Raise("ValueError: initialRetryDelaySeconds must be > 0")
       ELSE IF mult.v < 10 THEN Raise("ValueError: retryBackoffMultiplier must be >= 1")
       ELSE IF /\ fallback.t = "list"
               /\ \E i \in 1..Len(fallback.v) : fallback.v[i].t \notin {"int", "bool"}
         THEN Raise("ValueError: fallbackProtocolVersions must be integers")
       ELSE IF ~getaddr.ok THEN Raise("ValueError: invalid literal")
       ELSE [ok |-> TRUE,
             config |->
                [interval_minutes |-> IntV(interval.v),
                 max_concurrent |-> IntV(maxc.v),
                 connection_timeout |-> IntV(conn.v),
                 extended_timeout |-> IntV(ext.v),
                 getaddr_delay_ms |-> IntV(getaddr.v),
                 prune_after_hours |-> IntV(prune.v),
                 max_retries |-> IntV(retries.v),
                 initial_retry_delay |-> FloatV(initial.v),
                 retry_backoff_multiplier |-> FloatV(mult.v),
                 fallback_protocol_versions |->
                    IF fallback.t = "list" THEN fallback ELSE ListV(<<>>),
                 require_version_for_save |-> require]]

\* ------------------------------------------------------------------------
\* Database: the persistence sink and the alert webhook
\* ------------------------------------------------------------------------

NoneV == [t |-> "None", v |-> 0]

StrV(s) == [t |-> "str", v |-> s]

DictV(name) == [t |-> "dict", v |-> name]

Return(value) == [ok |-> TRUE, value |-> value]

\* what an operation hands back: its result and whether it called the
\* backend client
Done(res, called) == [res |-> res, called |-> called]

\* how the backend answers execute(): it raises, or result.data is a list
\* of one row, or result.data is empty
BackendAnswers == {"rows", "empty", "raises"}

\* Database.__init__: the client exists when the supabase library was
\* imported, url and key are given and create_client does not raise
database_init(has_supabase, url, key, create_client_ok) ==
   IF has_supabase /\ url # "" /\ key # ""
     THEN IF create_client_ok THEN Some("client") ELSE None
   ELSE None

\* upsert_node: data[0].get("id") of the upserted row
upsert_node(cl, backend) ==
   IF cl = None THEN Done(Return(NoneV), FALSE)
   ELSE IF backend = "raises" THEN Done(Return(NoneV), TRUE)
   ELSE IF backend = "rows" THEN Done(Return(StrV("node-id")), TRUE)
   ELSE Done(Return(NoneV), TRUE)

create_node_snapshot(cl, backend) ==
   IF cl = None THEN Done(Return(BoolV(FALSE)), FALSE)
   ELSE IF backend = "raises" THEN Done(Return(BoolV(FALSE)), TRUE)
   ELSE Done(Return(BoolV(TRUE)), TRUE)

\* get_node: result.data of a single() query, the row or nothing
get_node(cl, backend) ==
   IF cl = None THEN Done(Return(NoneV), FALSE)
   ELSE IF backend = "raises" THEN Done(Return(NoneV), TRUE)
   ELSE IF backend = "rows" THEN Done(Return(DictV("node")), TRUE)
   ELSE Done(Return(NoneV), TRUE)

\* get_all_nodes: result.data or []
get_all_nodes(cl, backend) ==
   IF cl = None THEN Done(Return(ListV(<<>>)), FALSE)
   ELSE IF backend = "raises" THEN Done(Return(ListV(<<>>)), TRUE)
   ELSE IF backend = "rows" THEN Done(Return(ListV(<< DictV("node") >>)), TRUE)
   ELSE Done(Return(ListV(<<>>)), TRUE)

\* prune_stale_nodes: len(result.data) if result.data else 0
prune_stale_nodes(cl, backend) ==
   IF cl = None THEN Done(Return(IntV(0)), FALSE)
   ELSE IF backend = "raises" THEN Done(Return(IntV(0)), TRUE)
   ELSE IF backend = "rows" THEN Done(Return(IntV(1)), TRUE)
   ELSE Done(Return(IntV(0)), TRUE)

save_snapshot(cl, backend) ==
   IF cl = None THEN Done(Return(BoolV(FALSE)), FALSE)
   ELSE IF backend = "raises" THEN Done(Return(BoolV(FALSE)), TRUE)
   ELSE Done(Return(BoolV(TRUE)), TRUE)

update_node_history(cl, backend) ==
   IF cl = None THEN Done(Return(BoolV(FALSE)), FALSE)
   ELSE IF backend = "raises" THEN Done(Return(BoolV(FALSE)), TRUE)
   ELSE Done(Return(BoolV(TRUE)), TRUE)

\* how the web app answers the POST: 200 with a JSON object, 200 with a
\* body that is not JSON, 204, 500, or the connection fails
HttpAnswers == {"200-json", "200-not-json", "204", "500", "connect-error"}

\* trigger_alert_processing: aiohttp is imported before the try block, the
\* POST is made whatever self.client is, and only status 200 with a JSON
\* object is a success
trigger_alert_processing(cl, http, aiohttp) ==
   IF ~aiohttp THEN Done(Raise("ModuleNotFoundError"), FALSE)
   ELSE IF http = "200-json" THEN Done(Return(BoolV(TRUE)), FALSE)
   ELSE Done(Return(BoolV(FALSE)), FALSE)

\* create_network_snapshot: data[0] of the rpc, nothing when the rpc
\* skipped the snapshot
create_network_snapshot(cl, backend) ==
   IF cl = None THEN Done(Return(NoneV), FALSE)
   ELSE IF backend = "raises" THEN Done(Return(NoneV), TRUE)
   ELSE IF backend = "rows" THEN Done(Return(DictV("snapshot")), TRUE)
   ELSE Done(Return(NoneV), TRUE)

\* the failure value of each operation
FailureValue(op) ==
   CASE op \in {"upsert_node", "get_node", "create_network_snapshot"} -> NoneV
     [] op \in {"create_node_snapshot", "save_snapshot", "update_node_history",
                "trigger_alert_processing"} -> BoolV(FALSE)
     [] op = "get_all_nodes" -> ListV(<<>>)
     [] op = "prune_stale_nodes" -> IntV(0)

\* ------------------------------------------------------------------------
\* GeoIPLookup: the GeoIP sink and its cache
\* ------------------------------------------------------------------------

\* the cache is limited to cache_cap entries; on overflow the evict_count
\* oldest are removed
cache_cap == 2

evict_count == 1

\* the record lookup starts from, every field None
NullRecord ==
   [country_code |-> None, country_name |-> None, region |-> None,
    city |-> None, latitude |-> None, longitude |-> None, timezone |-> None,
    isp |-> None, org |-> None, asn |-> None, asn_org |-> None]

\* the IP strings looked up: two the City database knows, one only the ASN
\* database knows, one neither knows, and a string that is not an address
GeoIPs == {"1.1.1.1", "2.2.2.2", "3.3.3.3", "4.4.4.4", "not-an-ip"}

\* reader.city(ip): a response, AddressNotFoundError, or another error
city(ip) ==
   CASE ip = "1.1.1.1" ->
           [kind |-> "found",
            fields |-> [country_code |-> Some("AU"), country_name |-> Some("Australia"),
                        region |-> Some("Queensland"), city |-> Some("Brisbane"),
                        latitude |-> Some("-27.5"), longitude |-> Some("153.0"),
                        timezone |-> Some("Australia/Brisbane"),
                        isp |-> None, org |-> None]]
     [] ip = "2.2.2.2" ->
           [kind |-> "found",
            fields |-> [country_code |-> Some("FR"), country_name |-> Some("France"),
                        region |-> None, city |-> None,
                        latitude |-> Some("48.9"), longitude |-> Some("2.3"),
                        timezone |-> Some("Europe/Paris"),
                        isp |-> None, org |-> None]]
     [] ip \in {"3.3.3.3", "4.4.4.4"} -> [kind |-> "AddressNotFoundError"]
     [] OTHER -> [kind |-> "ValueError"]

\* asn_reader.asn(ip)
asn(ip) ==
   CASE ip = "1.1.1.1" ->
           [kind |-> "found",
            fields |-> [asn |-> Some("13335"), asn_org |-> Some("CLOUDFLARENET")]]
     [] ip = "3.3.3.3" ->
           [kind |-> "found",
            fields |-> [asn |-> Some("16509"), asn_org |-> Some("AMAZON-02")]]
     [] ip \in {"2.2.2.2", "4.4.4.4"} -> [kind |-> "AddressNotFoundError"]
     [] OTHER -> [kind |-> "ValueError"]

\* GeoIPLookup.__init__: the City reader is opened when the geoip2 library
\* was imported and db_path exists, the ASN reader when its file exists
\* too; a Reader that raises leaves its attribute None
geoip_init(has_geoip, city_exists, city_opens, asn_exists, asn_opens) ==
   IF has_geoip /\ city_exists
     THEN [reader |-> IF city_opens THEN Some("City") ELSE None,
           asn_reader |-> IF asn_exists /\ asn_opens THEN Some("ASN") ELSE None]
   ELSE [reader |-> None, asn_reader |-> None]

\* ip in self._cache
InCache(c, ip) == \E i \in 1..Len(c) : c[i][1] = ip

\* self._cache[ip]
Cached(c, ip) == c[CHOOSE i \in 1..Len(c) : c[i][1] = ip][2]

\* the keys of self._cache
CacheKeys(c) == { c[i][1] : i \in 1..Len(c) }

\* lines 89-112: the fields of the City response, or nothing on an error
with_city(result, ip) ==
   LET response == city(ip) IN
   IF response.kind = "found"
     THEN [f \in DOMAIN result |->
             IF f \in DOMAIN response.fields THEN response.fields[f] ELSE result[f]]
   ELSE result

\* lines 115-123: the fields of the ASN response, or nothing on an error
with_asn(result, rd, ip) ==
   LET asn_response == asn(ip) IN
   IF rd # None /\ asn_response.kind = "found"
     THEN [result EXCEPT !.asn = asn_response.fields.asn,
                         !.asn_org = asn_response.fields.asn_org]
   ELSE result

\* lines 72-123: the record of an IP that is not cached
fresh_record(asn_rd, ip) == with_asn(with_city(NullRecord, ip), asn_rd, ip)

\* lookup where an error of the City reader other than AddressNotFoundError
\* reaches the caller
lookup_uncaught(rd, asn_rd, c, ip) ==
   IF InCache(c, ip)
     THEN [res |-> Return(Cached(c, ip)), cache |-> c, evicted |-> 0]
   ELSE IF rd = None
     THEN [res |-> Return(NullRecord), cache |-> c, evicted |-> 0]
   ELSE IF city(ip).kind \notin {"found", "AddressNotFoundError"}
     THEN [res |-> Raise(city(ip).kind), cache |-> c, evicted |-> 0]
   ELSE LET result == fresh_record(asn_rd, ip)
            grown == Append(c, <<ip, result>>)
        IN  IF Len(grown) > cache_cap
              THEN [res |-> Return(result),
                    cache |-> SubSeq(grown, evict_count + 1, Len(grown)),
                    evicted |-> evict_count]
            ELSE [res |-> Return(result), cache |-> grown, evicted |-> 0]

\* lookup without the limit on the size of the cache
lookup_unlimited(rd, asn_rd, c, ip) ==
   IF InCache(c, ip)
     THEN [res |-> Return(Cached(c, ip)), cache |-> c, evicted |-> 0]
   ELSE IF rd = None
     THEN [res |-> Return(NullRecord), cache |-> c, evicted |-> 0]
   ELSE LET result == fresh_record(asn_rd, ip)
        IN  [res |-> Return(result), cache |-> Append(c, <<ip, result>>),
             evicted |-> 0]

\* lookup: a cached record is returned as it is; without a City reader the
\* null record is returned and not cached; otherwise the record is built,
\* cached, and a cache of more than cache_cap entries loses its
\* evict_count first keys
lookup(rd, asn_rd, c, ip) ==
   IF InCache(c, ip)
     THEN [res |-> Return(Cached(c, ip)), cache |-> c, evicted |-> 0]
   ELSE IF rd = None
     THEN [res |-> Return(NullRecord), cache |-> c, evicted |-> 0]
   ELSE LET result == fresh_record(asn_rd, ip)
            grown == Append(c, <<ip, result>>)
        IN  IF Len(grown) > cache_cap
              THEN [res |-> Return(result),
                    cache |-> SubSeq(grown, evict_count + 1, Len(grown)),
                    evicted |-> evict_count]
            ELSE [res |-> Return(result), cache |-> grown, evicted |-> 0]

\* ------------------------------------------------------------------------
\* State
\* ------------------------------------------------------------------------

VARIABLES
   fpc,       \* frames: "idle", "start", "created", "flipped", "parsed"
   fin,       \* frames: the arguments [magic, command, payload, rest]
   buf,       \* frames: the receive buffer handed to parse_message
   ftamper,   \* frames: <<>> or <<i, k>>, bit k of payload byte i was flipped
   fres,      \* frames: what parse_message returned or raised
   wire,      \* stream: the bytes a peer has still to send
   vpc,       \* version: "idle", "start", "built", "payload", "parsed", "failed"
   vin,       \* version: the arguments, and where the payload comes from
   vmsg,      \* version: what create_version_message returned or raised
   vpayload,  \* version: the payload handed to parse_version_payload
   vres,      \* version: what parse_version_payload returned or raised
   rpc,       \* varint: "idle", "start", "read"
   rin,       \* varint: the arguments [data, offset]
   rres,      \* varint: what read_varint returned or raised
   phase,     \* pass: "idle", "seeding", "no-seeds", "running", "cancelling",
              \*       "published"
   book,      \* pass: the AddressBook map Endpoint -> Candidate
   fifo,      \* pass: the FIFO of unprobed endpoints
   scheduled, \* pass: the delay queue, endpoints whose deadline is ahead
   ready,     \* pass: the delay queue, endpoints whose deadline has passed
   admissions,\* pass: the total of admissions
   worker,    \* pass: per worker its position, Candidate and SessionOutcome
   published, \* pass: the number of calls of sink.publish
   cpc,       \* config: "idle", "start", "loaded"
   cin,       \* config: the environment and the YAML file [env, file]
   cres,      \* config: what load_config returned or raised
   dpc,       \* database: "idle", "new", "ready"
   client,    \* database: self.client, None or the backend client
   din,       \* database: the last call and how its collaborators answer
   dres,      \* database: what the last call returned or raised
   dbackend,  \* database: the number of calls that reached the backend
   gpc,       \* geoip: "idle", "new", "ready"
   reader,    \* geoip: self.reader, None or the City reader
   asn_reader,\* geoip: self.asn_reader, None or the ASN reader
   cache,     \* geoip: self._cache in insertion order, <<ip, record>> pairs
   recent,    \* geoip: the cached IPs from least to most recently looked up
   gin,       \* geoip: the last call and how the readers answer
   gres,      \* geoip: what the last call returned or raised
   ipc,       \* reader: "idle", "wait", "parse"
   sent,      \* reader: the frames the peer sends, [command, payload] each
   incoming,  \* reader: the bytes that have not arrived yet
   pending,   \* reader: the buffer of the bytes that have arrived
   ires,      \* reader: what the last parse_message returned or raised
   got,       \* reader: the frames parse_message has returned so far
   apc,       \* addr: "idle", "start", "parsed"
   ain,       \* addr: the payload as [count, n, entries, tail]
   ares       \* addr: what parse_addr_payload returned or raised

frameVars == << fpc, fin, buf, ftamper, fres, wire >>

versionVars == << vpc, vin, vmsg, vpayload, vres >>

varintVars == << rpc, rin, rres >>

passVars ==
   << phase, book, fifo, scheduled, ready, admissions, worker, published >>

configVars == << cpc, cin, cres >>

databaseVars == << dpc, client, din, dres, dbackend >>

geoipVars == << gpc, reader, asn_reader, cache, recent, gin, gres >>

sinkVars == << databaseVars, geoipVars >>

readerVars == << ipc, sent, incoming, pending, ires, got >>

addrVars == << apc, ain, ares >>

vars ==
   << frameVars, versionVars, varintVars, passVars, configVars, sinkVars,
      readerVars, addrVars >>

\* the variables the frame actions leave alone
notFrameVars == << versionVars, varintVars, passVars, configVars, sinkVars, readerVars,
      addrVars >>

\* the variables the version actions leave alone
notVersionVars == << frameVars, varintVars, passVars, configVars, sinkVars, readerVars,
      addrVars >>

\* the variables the varint actions leave alone
notVarintVars == << frameVars, versionVars, passVars, configVars, sinkVars, readerVars,
      addrVars >>

\* the variables the actions of a pass leave alone
notPassVars == << frameVars, versionVars, varintVars, configVars, sinkVars, readerVars,
      addrVars >>

\* the variables load_config leaves alone
notConfigVars == << frameVars, versionVars, varintVars, passVars, sinkVars, readerVars,
      addrVars >>

\* the variables the Database operations leave alone
notDatabaseVars ==
   << frameVars, versionVars, varintVars, passVars, configVars, geoipVars,
      readerVars, addrVars >>

\* the variables the GeoIPLookup operations leave alone
notGeoipVars ==
   << frameVars, versionVars, varintVars, passVars, configVars, databaseVars,
      readerVars, addrVars >>

\* the variables the incremental reader leaves alone
notReaderVars ==
   << frameVars, versionVars, varintVars, passVars, configVars, sinkVars,
      addrVars >>

\* the variables parse_addr_payload leaves alone
notAddrVars ==
   << frameVars, versionVars, varintVars, passVars, configVars, sinkVars,
      readerVars >>

NoResult == [ok |-> FALSE, err |-> "not run"]

FrameIdle ==
   /\ fpc = "idle"
   /\ fin = [magic |-> <<>>, command |-> <<>>, payload |-> <<>>, rest |-> <<>>]
   /\ buf = <<>>
   /\ ftamper = <<>>
   /\ fres = NoResult
   /\ wire = <<>>

NoVersionInput ==
   [origin |-> "none", name |-> <<>>, protocol_version |-> 0,
    recv_ip |-> [fam |-> "v4", b |-> <<0, 0, 0, 0>>], recv_port |-> 0,
    start_height |-> 0, timestamp |-> <<>>, nonce |-> <<>>,
    ua |-> <<>>, relay |-> <<>>]

VersionIdle ==
   /\ vpc = "idle"
   /\ vin = NoVersionInput
   /\ vmsg = NoResult
   /\ vpayload = <<>>
   /\ vres = NoResult

VarintIdle ==
   /\ rpc = "idle"
   /\ rin = [data |-> <<>>, offset |-> 0]
   /\ rres = NoResult

\* the worker units, up to max_concurrent of them
max_concurrent == 2

Workers == 1..max_concurrent

NoEndpoint == Endpoint([fam |-> "v4", b |-> <<0, 0, 0, 0>>], 0)

NoOutcome == [kind |-> "none", learned |-> <<>>, addr_recv |-> NoEndpoint.ip]

IdleWorker == [pc |-> "idle", endpoint |-> NoEndpoint, outcome |-> NoOutcome]

EmptyBook == [e \in {} |-> Unprobed]

PassIdle ==
   /\ phase = "idle"
   /\ book = EmptyBook
   /\ fifo = <<>>
   /\ scheduled = {}
   /\ ready = {}
   /\ admissions = 0
   /\ worker = [w \in Workers |-> IdleWorker]
   /\ published = 0

NoEnv == [n \in EnvNames |-> None]

NoSection == [k \in YamlKeys |-> None]

ConfigIdle ==
   /\ cpc = "idle"
   /\ cin = [env |-> NoEnv, file |-> None]
   /\ cres = NoResult

NoCall == [op |-> "none", backend |-> "none", http |-> "none", aiohttp |-> TRUE]

DatabaseIdle ==
   /\ dpc = "idle"
   /\ client = None
   /\ din = NoCall
   /\ dres = NoResult
   /\ dbackend = 0

NoLookup == [op |-> "none", ip |-> "", evicted |-> 0]

GeoipIdle ==
   /\ gpc = "idle"
   /\ reader = None
   /\ asn_reader = None
   /\ cache = <<>>
   /\ recent = <<>>
   /\ gin = NoLookup
   /\ gres = NoResult

ReaderIdle ==
   /\ ipc = "idle"
   /\ sent = <<>>
   /\ incoming = <<>>
   /\ pending = <<>>
   /\ ires = NoResult
   /\ got = <<>>

AddrIdle ==
   /\ apc = "idle"
   /\ ain = [count |-> <<>>, n |-> 0, entries |-> <<>>, tail |-> 0]
   /\ ares = NoResult

SinkIdle == DatabaseIdle /\ GeoipIdle /\ ReaderIdle /\ AddrIdle

NotFrameIdle == VersionIdle /\ VarintIdle /\ PassIdle /\ ConfigIdle /\ SinkIdle

NotVersionIdle == FrameIdle /\ VarintIdle /\ PassIdle /\ ConfigIdle /\ SinkIdle

NotVarintIdle == FrameIdle /\ VersionIdle /\ PassIdle /\ ConfigIdle /\ SinkIdle

NotPassIdle == FrameIdle /\ VersionIdle /\ VarintIdle /\ ConfigIdle /\ SinkIdle

NotConfigIdle == FrameIdle /\ VersionIdle /\ VarintIdle /\ PassIdle /\ SinkIdle

NotDatabaseIdle ==
   /\ FrameIdle /\ VersionIdle /\ VarintIdle /\ PassIdle /\ ConfigIdle
   /\ GeoipIdle /\ ReaderIdle /\ AddrIdle

NotGeoipIdle ==
   /\ FrameIdle /\ VersionIdle /\ VarintIdle /\ PassIdle /\ ConfigIdle
   /\ DatabaseIdle /\ ReaderIdle /\ AddrIdle

NotReaderIdle ==
   /\ FrameIdle /\ VersionIdle /\ VarintIdle /\ PassIdle /\ ConfigIdle
   /\ DatabaseIdle /\ GeoipIdle /\ AddrIdle

NotAddrIdle ==
   /\ FrameIdle /\ VersionIdle /\ VarintIdle /\ PassIdle /\ ConfigIdle
   /\ DatabaseIdle /\ GeoipIdle /\ ReaderIdle

\* ------------------------------------------------------------------------
\* Bounds and input sets
\* ------------------------------------------------------------------------

SeqsUpTo(S, n) == UNION { [1..k -> S] : k \in 0..n }

MaxShortCmd == 2

MaxPayload == 1

\* magicBytes of the configuration examples: "c1c1c1c1" and Bitcoin's
Magics == { <<193, 193, 193, 193>>, <<249, 190, 180, 217>> }

ChainMagic == <<193, 193, 193, 193>>

\* short commands over "a" and NUL, both ASCII
Commands ==
   (SeqsUpTo({0, 97}, MaxShortCmd) \ {<<>>}) \cup {CmdVersion, CmdTwelve}

Payloads == SeqsUpTo({7}, MaxPayload)

Rests == { <<>>, <<193>> }

\* a payload whose double-SHA256 starts ba 38 35 08, as does that of
\* 13 5b 49 36, which differs from it in one bit
CollidingPayload == <<19, 27, 73, 54>>

FlipPayloads == (Payloads \ {<<>>}) \cup {CollidingPayload}

\* ------------------------------------------------------------------------
\* Frames: a sender builds a frame, the line may flip one payload bit,
\* the receiver parses the buffer
\* ------------------------------------------------------------------------

\* byte b with bit k (0..7) inverted
FlipBitOf(b, k) ==
   IF (b \div (2 ^ k)) % 2 = 1 THEN b - 2 ^ k ELSE b + 2 ^ k

Create ==
   /\ fpc = "start"
   /\ buf' = create_message(fin.magic, fin.command, fin.payload) \o fin.rest
   /\ fpc' = "created"
   /\ UNCHANGED << fin, ftamper, fres, wire >>
   /\ UNCHANGED notFrameVars

FlipBit ==
   /\ fpc = "created"
   /\ \E i \in 1..Len(fin.payload), k \in 0..7 :
         /\ buf' = [buf EXCEPT ![24 + i] = FlipBitOf(buf[24 + i], k)]
         /\ ftamper' = <<i, k>>
   /\ fpc' = "flipped"
   /\ UNCHANGED << fin, fres, wire >>
   /\ UNCHANGED notFrameVars

Parse ==
   /\ fpc \in {"created", "flipped"}
   /\ fres' = parse_message(buf, fin.magic)
   /\ fpc' = "parsed"
   /\ UNCHANGED << fin, buf, ftamper, wire >>
   /\ UNCHANGED notFrameVars

InitFrame ==
   /\ fpc = "start"
   /\ fin \in [magic : Magics, command : Commands, payload : Payloads, rest : Rests]
   /\ buf = <<>>
   /\ ftamper = <<>>
   /\ fres = NoResult
   /\ wire = <<>>
   /\ NotFrameIdle

NextFrame == Create \/ Parse

SpecFrame == InitFrame /\ [][NextFrame]_vars

InitFlip ==
   /\ fpc = "start"
   /\ fin \in [magic : {ChainMagic}, command : {CmdAddr},
               payload : FlipPayloads, rest : Rests]
   /\ buf = <<>>
   /\ ftamper = <<>>
   /\ fres = NoResult
   /\ wire = <<>>
   /\ NotFrameIdle

NextFlip == Create \/ FlipBit \/ Parse

SpecFlip == InitFlip /\ [][NextFlip]_vars

\* ------------------------------------------------------------------------
\* Stream: a peer sends whatever bytes it likes, in chunks; the receiver
\* tries parse_message on the buffer it has accumulated
\* ------------------------------------------------------------------------

\* what a peer may put in the length field: the length of the body it
\* sends, 2 MiB, 2 MiB + 1, 2^32 - 1
DeclaredLengths(body) ==
   { pack_le(NumOfInt(Len(body)), 4), <<0, 0, 32, 0>>, <<1, 0, 32, 0>>,
     <<255, 255, 255, 255>> }

\* the frames a peer sends around a body: either magic, any declared
\* length, the right checksum or a zero one
FramesAround(body) ==
   { m \o ljust_nul(CmdAddr, 12) \o l \o c \o body :
        m \in {ChainMagic, <<0, 0, 0, 0>>},
        l \in DeclaredLengths(body),
        c \in {<<0, 0, 0, 0>>, Slice(double_sha256(body), 0, 4)} }

PeerFrames == UNION { FramesAround(body) : body \in Payloads }

ChunkSizes == {1, 24}

Receive ==
   /\ fpc \in {"recv", "tried"}
   /\ wire # <<>>
   /\ \E n \in ChunkSizes :
         /\ n <= Len(wire)
         /\ buf' = buf \o SubSeq(wire, 1, n)
         /\ wire' = SubSeq(wire, n + 1, Len(wire))
   /\ fpc' = "recv"
   /\ fres' = NoResult
   /\ UNCHANGED << fin, ftamper >>
   /\ UNCHANGED notFrameVars

TryParse ==
   /\ fpc = "recv"
   /\ fres' = parse_message(buf, fin.magic)
   /\ fpc' = "tried"
   /\ UNCHANGED << fin, buf, ftamper, wire >>
   /\ UNCHANGED notFrameVars

InitStream ==
   /\ fpc = "recv"
   /\ fin = [magic |-> ChainMagic, command |-> <<>>, payload |-> <<>>, rest |-> <<>>]
   /\ wire \in PeerFrames
   /\ buf = <<>>
   /\ ftamper = <<>>
   /\ fres = NoResult
   /\ NotFrameIdle

NextStream == Receive \/ TryParse

SpecStream == InitStream /\ [][NextStream]_vars

\* ------------------------------------------------------------------------
\* Version: the crawler builds its version message and reads it back
\* (origin "self"), or reads the version payload a peer sent ("peer")
\* ------------------------------------------------------------------------

NameOfLen(n) == [i \in 1..n |-> 120]

\* "Bit", and names that make the user agent 253 and 256 bytes long
ChainNames == { <<66, 105, 116>>, NameOfLen(233), NameOfLen(236) }

ProtocolVersions == { 60002, 70000, 70001 }

\* 1.2.3.4 and 2001:db8::1
RecvIps ==
   { [fam |-> "v4", b |-> <<1, 2, 3, 4>>],
     [fam |-> "v6", b |-> <<32, 1, 13, 184, 0, 0, 0, 0, 0, 0, 0, 0, 0, 0, 0, 1>>] }

StartHeights == { 0, 70000 }

Timestamp == NumOfInt(1700000000)

Nonce == [i \in 1..8 |-> 255]

SelfInputs ==
   { [NoVersionInput EXCEPT !.origin = "self", !.name = n,
         !.protocol_version = v, !.recv_ip = ip, !.recv_port = 8333,
         !.start_height = h, !.timestamp = Timestamp, !.nonce = Nonce] :
       n \in ChainNames, v \in ProtocolVersions, ip \in RecvIps,
       h \in StartHeights }

\* "/Satoshi:25.0.0/"
SatoshiAgent ==
   << 47, 83, 97, 116, 111, 115, 104, 105, 58, 50, 53, 46, 48, 46, 48, 47 >>

PeerUserAgents ==
   { <<>>, SatoshiAgent, NameOfLen(252), NameOfLen(253), NameOfLen(256) }

PeerInputs ==
   { [NoVersionInput EXCEPT !.origin = "peer", !.protocol_version = 70015,
         !.recv_ip = [fam |-> "v4", b |-> <<1, 2, 3, 4>>], !.recv_port = 8333,
         !.start_height = h, !.timestamp = Timestamp, !.nonce = Nonce,
         !.ua = ua, !.relay = r] :
       ua \in PeerUserAgents, h \in StartHeights,
       r \in { <<>>, <<0>>, <<1>>, <<2>> } }

ChainConfigOf(in) ==
   [name |-> in.name, protocol_version |-> in.protocol_version,
    magic_bytes |-> ChainMagic]

BuildVersion ==
   /\ vpc = "start"
   /\ vmsg' = create_version_message(ChainConfigOf(vin), vin.recv_ip,
                 vin.recv_port, vin.start_height, vin.timestamp, vin.nonce)
   /\ vpc' = IF vmsg'.ok THEN "built" ELSE "failed"
   /\ UNCHANGED << vin, vpayload, vres >>
   /\ UNCHANGED notVersionVars

Unframe ==
   /\ vpc = "built"
   /\ LET r == parse_message(vmsg.msg, ChainMagic)
      IN  IF r.ok /\ r.command = CmdVersion
            THEN vpayload' = r.payload /\ vpc' = "payload"
            ELSE vpayload' = <<>> /\ vpc' = "failed"
   /\ UNCHANGED << vin, vmsg, vres >>
   /\ UNCHANGED notVersionVars

ParseVersion ==
   /\ vpc = "payload"
   /\ vres' = parse_version_payload(vpayload)
   /\ vpc' = "parsed"
   /\ UNCHANGED << vin, vmsg, vpayload >>
   /\ UNCHANGED notVersionVars

InitVersion ==
   /\ \/ /\ vin \in SelfInputs
         /\ vpc = "start"
         /\ vpayload = <<>>
      \/ /\ vin \in PeerInputs
         /\ vpc = "payload"
         /\ vpayload = peer_version_payload(vin.protocol_version, vin.recv_ip.b,
                          vin.recv_port, vin.nonce, vin.ua, vin.start_height,
                          vin.relay)
   /\ vmsg = NoResult
   /\ vres = NoResult
   /\ NotVersionIdle

NextVersion == BuildVersion \/ Unframe \/ ParseVersion

SpecVersion == InitVersion /\ [][NextVersion]_vars

\* ------------------------------------------------------------------------
\* Varints: read_varint on byte strings with an integer at some offset
\* ------------------------------------------------------------------------

\* the longest run of bytes after the first byte of the integer
MaxTail == 8

\* the bytes in front of the integer
VarintPrefixes == {<<>>, <<9>>}

VarintFirstBytes == {0, 1, 252, 253, 254, 255}

\* [data, offset]: an integer, whole or cut short, at offset, bytes after
\* it or none; and the offset at the end of the data
VarintInputs ==
   { [data |-> p \o <<f>> \o t, offset |-> Len(p)] :
        p \in VarintPrefixes, f \in VarintFirstBytes,
        t \in SeqsUpTo({0, 255}, MaxTail) }
   \cup { [data |-> p, offset |-> Len(p)] : p \in VarintPrefixes }

ReadVarint ==
   /\ rpc = "start"
   /\ rres' = read_varint(rin.data, rin.offset)
   /\ rpc' = "read"
   /\ UNCHANGED rin
   /\ UNCHANGED notVarintVars

InitVarint ==
   /\ rpc = "start"
   /\ rin \in VarintInputs
   /\ rres = NoResult
   /\ NotVarintIdle

NextVarint == ReadVarint

SpecVarint == InitVarint /\ [][NextVarint]_vars

\* ------------------------------------------------------------------------
\* A crawl pass: Seeder, Scheduler and workers over the AddressBook
\* (spec.md 4.2 - 4.5, 5)
\* ------------------------------------------------------------------------

IPv4(a, b, c, d) == [fam |-> "v4", b |-> <<a, b, c, d>>]

\* the text ::ffff:a.b.c.d
MappedText(ip4) == [fam |-> "v6", b |-> MappedPrefix \o ip4.b]

E1 == Endpoint(IPv4(1, 2, 3, 4), 8333)

E2 == Endpoint(IPv4(5, 6, 7, 8), 8333)

\* [2001:db8::1]:8333
E3 ==
   Endpoint([fam |-> "v6",
             b |-> <<32, 1, 13, 184, 0, 0, 0, 0, 0, 0, 0, 0, 0, 0, 0, 1>>], 8333)

Loopback == Endpoint(IPv4(127, 0, 0, 1), 8333)

own_external_ip == IPv4(9, 9, 9, 9)

\* what the Seeder produces: the A and the AAAA record of a DNS seed, and
\* a static seed node
Seeds ==
   { [endpoint |-> E1, source |-> "dns"],
     [endpoint |-> Endpoint(MappedText(E1.ip), E1.port), source |-> "dns"],
     [endpoint |-> Loopback, source |-> "manual"] }

\* the endpoints the peer at an endpoint advertises
Advertised(e) ==
   IF e = E1
     THEN << E1, E2, E3, Endpoint(IPv4(10, 0, 0, 1), 8333),
             Endpoint(E2.ip, 0), Endpoint(own_external_ip, 8333) >>
   ELSE IF e = E2 THEN << E2, E1 >>
   ELSE IF e = E3 THEN << E1 >>
   ELSE << E1, E2, E3 >>

\* how a session with the peer at an endpoint can end while the pass
\* runs: a current peer and a stale peer that answer or time out, a host
\* that times out or answers with another magic, a fake peer that answers
SessionKinds(e) ==
   IF e = E1 THEN {"ok", "connect-timeout"}
   ELSE IF e = E2 THEN {"below-minimum-version", "connect-timeout"}
   ELSE IF e = E3 THEN {"connect-timeout", "bad-magic"}
   ELSE {"ok"}

\* what parse_addr_payload makes of the addr payload sent by the peer at
\* E1, E2, E3 and at any other endpoint
AddrReplies ==
   << parse_addr_payload(peer_addr_payload(Advertised(E1))).addresses,
      parse_addr_payload(peer_addr_payload(Advertised(E2))).addresses,
      parse_addr_payload(peer_addr_payload(Advertised(E3))).addresses,
      parse_addr_payload(peer_addr_payload(Advertised(Loopback))).addresses >>

LearnedFrom(e) ==
   IF e = E1 THEN AddrReplies[1]
   ELSE IF e = E2 THEN AddrReplies[2]
   ELSE IF e = E3 THEN AddrReplies[3]
   ELSE AddrReplies[4]

\* the SessionOutcome of a session that ended in this way with this peer
OutcomeOf(e, kind) ==
   [kind |-> kind,
    learned |-> IF kind \in {"ok", "below-minimum-version"}
                  THEN LearnedFrom(e)
                  ELSE <<>>,
    addr_recv |-> IF kind \in {"ok", "below-minimum-version"}
                    THEN own_external_ip ELSE NoEndpoint.ip]

ActiveWorkers == { w \in Workers : worker[w].pc # "idle" }

InFlight == { e \in DOMAIN book : book[e].state = "in-flight" }

fixpoint_reached ==
   /\ \A e \in DOMAIN book : book[e].state \notin {"unprobed", "in-flight"}
   /\ fifo = <<>>
   /\ scheduled = {}
   /\ ready = {}

\* the Seeder admits one of its endpoints
Seed ==
   /\ phase = "seeding"
   /\ \E s \in Seeds :
         LET ab == admit([book |-> book, fifo |-> fifo, admissions |-> admissions],
                         s.endpoint, s.source)
         IN  /\ book' = ab.book
             /\ fifo' = ab.fifo
             /\ admissions' = ab.admissions
   /\ UNCHANGED << phase, scheduled, ready, worker, published >>
   /\ UNCHANGED notPassVars

\* a pass with zero initial candidates fails fast
NoSeeds ==
   /\ phase = "seeding"
   /\ DOMAIN book = {}
   /\ phase' = "no-seeds"
   /\ UNCHANGED << book, fifo, scheduled, ready, admissions, worker, published >>
   /\ UNCHANGED notPassVars

StartPass ==
   /\ phase = "seeding"
   /\ DOMAIN book # {}
   /\ phase' = "running"
   /\ UNCHANGED << book, fifo, scheduled, ready, admissions, worker, published >>
   /\ UNCHANGED notPassVars

\* claim() by worker w takes the head of the FIFO
ClaimUnprobed(w) ==
   /\ phase = "running"
   /\ worker[w].pc = "idle"
   /\ fifo # <<>>
   /\ LET e == Head(fifo)
      IN  /\ book' = [book EXCEPT ![e] = [@ EXCEPT !.state = "in-flight",
                                                    !.attempts = @ + 1]]
          /\ worker' = [worker EXCEPT ![w] = [pc |-> "session", endpoint |-> e,
                                              outcome |-> NoOutcome]]
   /\ fifo' = fifo_pop(fifo)
   /\ UNCHANGED << phase, scheduled, ready, admissions, published >>
   /\ UNCHANGED notPassVars

\* claim() by worker w takes a retry-ready endpoint
ClaimRetry(w) ==
   /\ phase = "running"
   /\ worker[w].pc = "idle"
   /\ \E e \in ready :
         /\ book' = [book EXCEPT ![e] = [@ EXCEPT !.state = "in-flight",
                                                   !.attempts = @ + 1]]
         /\ worker' = [worker EXCEPT ![w] = [pc |-> "session", endpoint |-> e,
                                             outcome |-> NoOutcome]]
         /\ ready' = ready \ {e}
   /\ UNCHANGED << phase, fifo, scheduled, admissions, published >>
   /\ UNCHANGED notPassVars

\* the PeerSession of worker w runs to completion
SessionEnd(w) ==
   /\ phase \in {"running", "cancelling"}
   /\ worker[w].pc = "session"
   /\ \E kind \in SessionKinds(worker[w].endpoint) :
         worker' = [worker EXCEPT ![w] = [@ EXCEPT !.pc = "done",
                       !.outcome = OutcomeOf(worker[w].endpoint, kind)]]
   /\ UNCHANGED << phase, book, fifo, scheduled, ready, admissions, published >>
   /\ UNCHANGED notPassVars

\* worker w, signalled by the cancelled Scheduler, closes its socket
CancelSession(w) ==
   /\ phase = "cancelling"
   /\ worker[w].pc = "session"
   /\ worker' = [worker EXCEPT ![w] = [@ EXCEPT !.pc = "done",
                    !.outcome = OutcomeOf(worker[w].endpoint, "cancelled")]]
   /\ UNCHANGED << phase, book, fifo, scheduled, ready, admissions, published >>
   /\ UNCHANGED notPassVars

\* report(outcome) by worker w
Report(w) ==
   /\ phase \in {"running", "cancelling"}
   /\ worker[w].pc = "done"
   /\ LET e == worker[w].endpoint
          o == worker[w].outcome
          c == classify(o.kind, book[e].attempts)
      IN  /\ \E ab \in { admit_learned(
                             [book |-> [book EXCEPT ![e] = [@ EXCEPT !.state = c,
                                                          !.last_error = o.kind]],
                              fifo |-> fifo, admissions |-> admissions],
                             o.learned,
                             {own_external_ip, canonicalize(o.addr_recv)}) } :
                /\ book' = ab.book
                /\ fifo' = ab.fifo
                /\ admissions' = ab.admissions
          /\ scheduled' = IF c = "unprobed" THEN scheduled \cup {e} ELSE scheduled
   /\ worker' = [worker EXCEPT ![w] = IdleWorker]
   /\ UNCHANGED << phase, ready, published >>
   /\ UNCHANGED notPassVars

\* the deadline of a retry passes
DelayElapses ==
   /\ phase = "running"
   /\ \E e \in scheduled :
         /\ scheduled' = scheduled \ {e}
         /\ ready' = ready \cup {e}
   /\ UNCHANGED << phase, book, fifo, admissions, worker, published >>
   /\ UNCHANGED notPassVars

\* the pass deadline expires and cancels the Scheduler
Deadline ==
   /\ phase = "running"
   /\ phase' = "cancelling"
   /\ UNCHANGED << book, fifo, scheduled, ready, admissions, worker, published >>
   /\ UNCHANGED notPassVars

\* a Scheduler that retires the pass as soon as no worker is active
PublishWhenIdle ==
   /\ phase \in {"running", "cancelling"}
   /\ ActiveWorkers = {}
   /\ phase' = "published"
   /\ published' = published + 1
   /\ UNCHANGED << book, fifo, scheduled, ready, admissions, worker >>
   /\ UNCHANGED notPassVars

\* the Scheduler retires the pass
Publish ==
   /\ \/ phase = "running" /\ fixpoint_reached
      \/ phase = "cancelling"
   /\ ActiveWorkers = {}
   /\ phase' = "published"
   /\ published' = published + 1
   /\ UNCHANGED << book, fifo, scheduled, ready, admissions, worker >>
   /\ UNCHANGED notPassVars

InitPass ==
   /\ phase = "seeding"
   /\ book = EmptyBook
   /\ fifo = <<>>
   /\ scheduled = {}
   /\ ready = {}
   /\ admissions = 0
   /\ worker = [w \in Workers |-> IdleWorker]
   /\ published = 0
   /\ NotPassIdle

NextPass ==
   \/ Seed
   \/ NoSeeds
   \/ StartPass
   \/ \E w \in Workers : ClaimUnprobed(w)
   \/ \E w \in Workers : ClaimRetry(w)
   \/ \E w \in Workers : SessionEnd(w)
   \/ \E w \in Workers : CancelSession(w)
   \/ \E w \in Workers : Report(w)
   \/ DelayElapses
   \/ Deadline
   \/ Publish

SpecPass == InitPass /\ [][NextPass]_vars

\* fair scheduling: a worker that can claim, whose session can end (every
\* suspension point of a session has a deadline) or that can report does
\* so in the end, the deadline of a retry passes in the end, and the
\* Scheduler retires a pass it can retire; nothing obliges the Seeder or
\* the pass deadline
FairPass ==
   /\ \A w \in Workers :
         /\ WF_vars(ClaimUnprobed(w))
         /\ WF_vars(ClaimRetry(w))
         /\ WF_vars(SessionEnd(w))
         /\ WF_vars(Report(w))
   /\ WF_vars(DelayElapses)
   /\ WF_vars(Publish)

SpecPassFair == SpecPass /\ FairPass

\* ------------------------------------------------------------------------
\* Configuration: load_config under an environment and a YAML file
\* ------------------------------------------------------------------------

\* the texts an environment variable is set to: "7", and for MAX_RETRIES
\* also "-1", "0", "10", "11", for RETRY_BACKOFF_MULTIPLIER "0.5", "1", "1.5"
EnvTexts(name) ==
   IF name = "MAX_RETRIES"
     THEN { <<55>>, <<45, 49>>, <<48>>, <<49, 48>>, <<49, 49>> }
   ELSE IF name = "RETRY_BACKOFF_MULTIPLIER"
     THEN { <<48, 46, 53>>, <<49>>, <<49, 46, 53>> }
   ELSE { <<55>> }

\* the values a key of the crawlerConfig section is given
YamlValues(key) ==
   IF key = "maxRetries" THEN { IntV(2), IntV(11) }
   ELSE IF key = "retryBackoffMultiplier" THEN { FloatV(5), FloatV(15) }
   ELSE IF key = "initialRetryDelaySeconds" THEN { FloatV(5) }
   ELSE IF key = "fallbackProtocolVersions" THEN { ListV(<< IntV(70015) >>) }
   ELSE IF key = "requireVersionForSave" THEN { BoolV(FALSE) }
   ELSE IF key = "getaddr_delay_ms" THEN { IntV(250) }
   ELSE { IntV(8) }

\* environments with at most one of the variables set
Environments ==
   { NoEnv }
   \cup UNION { { [NoEnv EXCEPT ![n] = Some(t)] : t \in EnvTexts(n) } :
                  n \in EnvNames }

\* no file, a file without settings, files with one key of the section
YamlFiles ==
   { None, Some(NoSection) }
   \cup UNION { { Some([NoSection EXCEPT ![k] = Some(v)]) : v \in YamlValues(k) } :
                  k \in YamlKeys }

LoadConfig ==
   /\ cpc = "start"
   /\ cres' = load_config(cin.env, cin.file)
   /\ cpc' = "loaded"
   /\ UNCHANGED cin
   /\ UNCHANGED notConfigVars

InitConfig ==
   /\ cpc = "start"
   /\ cin \in [env : Environments, file : YamlFiles]
   /\ cres = NoResult
   /\ NotConfigIdle

NextConfig == LoadConfig

SpecConfig == InitConfig /\ [][NextConfig]_vars

\* ------------------------------------------------------------------------
\* Database: one sink, called any number of times
\* ------------------------------------------------------------------------

\* the calls that reach the backend are counted up to MaxBackendCalls
MaxBackendCalls == 3

BackendOps ==
   {"upsert_node", "create_node_snapshot", "get_node", "get_all_nodes",
    "prune_stale_nodes", "save_snapshot", "update_node_history",
    "create_network_snapshot"}

DatabaseOps == BackendOps \cup {"trigger_alert_processing"}

\* an operation was called on the sink and handed back done
Called(op, backend, http, aiohttp, done) ==
   /\ dpc = "ready"
   /\ dbackend < MaxBackendCalls
   /\ din' = [op |-> op, backend |-> backend, http |-> http, aiohttp |-> aiohttp]
   /\ dres' = done.res
   /\ dbackend' = IF done.called THEN dbackend + 1 ELSE dbackend
   /\ UNCHANGED << dpc, client >>
   /\ UNCHANGED notDatabaseVars

DatabaseInit ==
   /\ dpc = "new"
   /\ \E has_supabase \in BOOLEAN, url \in {"", "https://db"}, key \in {"", "key"},
         create_client_ok \in BOOLEAN :
         client' = database_init(has_supabase, url, key, create_client_ok)
   /\ dpc' = "ready"
   /\ UNCHANGED << din, dres, dbackend >>
   /\ UNCHANGED notDatabaseVars

UpsertNode ==
   \E backend \in BackendAnswers :
      Called("upsert_node", backend, "none", TRUE, upsert_node(client, backend))

CreateNodeSnapshot ==
   \E backend \in BackendAnswers :
      Called("create_node_snapshot", backend, "none", TRUE,
             create_node_snapshot(client, backend))

GetNode ==
   \E backend \in BackendAnswers :
      Called("get_node", backend, "none", TRUE, get_node(client, backend))

GetAllNodes ==
   \E backend \in BackendAnswers :
      Called("get_all_nodes", backend, "none", TRUE, get_all_nodes(client, backend))

PruneStaleNodes ==
   \E backend \in BackendAnswers :
      Called("prune_stale_nodes", backend, "none", TRUE,
             prune_stale_nodes(client, backend))

SaveSnapshot ==
   \E backend \in BackendAnswers :
      Called("save_snapshot", backend, "none", TRUE, save_snapshot(client, backend))

UpdateNodeHistory ==
   \E backend \in BackendAnswers :
      Called("update_node_history", backend, "none", TRUE,
             update_node_history(client, backend))

\* the web app answers only when aiohttp could be imported
TriggerAlertProcessing ==
   \/ \E http \in HttpAnswers :
         Called("trigger_alert_processing", "none", http, TRUE,
                trigger_alert_processing(client, http, TRUE))
   \/ Called("trigger_alert_processing", "none", "none", FALSE,
             trigger_alert_processing(client, "none", FALSE))

CreateNetworkSnapshot ==
   \E backend \in BackendAnswers :
      Called("create_network_snapshot", backend, "none", TRUE,
             create_network_snapshot(client, backend))

InitDatabase ==
   /\ dpc = "new"
   /\ client = None
   /\ din = NoCall
   /\ dres = NoResult
   /\ dbackend = 0
   /\ NotDatabaseIdle

NextDatabase ==
   \/ DatabaseInit
   \/ UpsertNode
   \/ CreateNodeSnapshot
   \/ GetNode
   \/ GetAllNodes
   \/ PruneStaleNodes
   \/ SaveSnapshot
   \/ UpdateNodeHistory
   \/ TriggerAlertProcessing
   \/ CreateNetworkSnapshot

SpecDatabase == InitDatabase /\ [][NextDatabase]_vars

\* ------------------------------------------------------------------------
\* GeoIPLookup: one sink, looked up any number of times, closed at any time
\* ------------------------------------------------------------------------

\* s without its occurrences of x
Without(s, x) == SelectSeq(s, LAMBDA y : y # x)

\* s restricted to the members of keep
Kept(s, keep) == SelectSeq(s, LAMBDA y : y \in keep)

GeoipInit ==
   /\ gpc = "new"
   /\ \E has_geoip \in BOOLEAN, city_exists \in BOOLEAN, city_opens \in BOOLEAN,
         asn_exists \in BOOLEAN, asn_opens \in BOOLEAN :
         LET made == geoip_init(has_geoip, city_exists, city_opens,
                                asn_exists, asn_opens)
         IN  /\ reader' = made.reader
             /\ asn_reader' = made.asn_reader
   /\ gpc' = "ready"
   /\ UNCHANGED << cache, recent, gin, gres >>
   /\ UNCHANGED notGeoipVars

\* lookup(ip); recent keeps the order of the last lookups of the cached IPs
Lookup ==
   /\ gpc = "ready"
   /\ \E ip \in GeoIPs :
         LET done == lookup(reader, asn_reader, cache, ip) IN
         /\ gres' = done.res
         /\ cache' = done.cache
         /\ gin' = [op |-> "lookup", ip |-> ip, evicted |-> done.evicted]
         /\ recent' = IF InCache(done.cache, ip)
                        THEN Kept(Append(Without(recent, ip), ip), CacheKeys(done.cache))
                      ELSE recent
   /\ UNCHANGED << gpc, reader, asn_reader >>
   /\ UNCHANGED notGeoipVars

\* close(): both readers are closed and forgotten, the cache is kept
Close ==
   /\ gpc = "ready"
   /\ reader' = None
   /\ asn_reader' = None
   /\ gin' = [op |-> "close", ip |-> "", evicted |-> 0]
   /\ gres' = Return(NoneV)
   /\ UNCHANGED << gpc, cache, recent >>
   /\ UNCHANGED notGeoipVars

InitGeoip ==
   /\ gpc = "new"
   /\ reader = None
   /\ asn_reader = None
   /\ cache = <<>>
   /\ recent = <<>>
   /\ gin = NoLookup
   /\ gres = NoResult
   /\ NotGeoipIdle

NextGeoip == GeoipInit \/ Lookup \/ Close

SpecGeoip == InitGeoip /\ [][NextGeoip]_vars

\* ------------------------------------------------------------------------
\* Incremental parsing: valid frames arrive in chunks and parse_message is
\* tried on the accumulated buffer after each chunk
\* ------------------------------------------------------------------------

\* the number of frames a peer sends
MaxFrames == 2

\* the frames sent: verack without payload, version with one
CmdVerack == <<118, 101, 114, 97, 99, 107>>

FrameList ==
   << [command |-> CmdVerack, payload |-> <<>>],
      [command |-> CmdVersion, payload |-> <<7, 9>>] >>

SentFrames == { FrameList[i] : i \in 1..Len(FrameList) }

\* the sizes of the chunks the bytes arrive in: one byte or a header; a
\* chunk may also bring all that is left
ArrivalSizes == {1, 24}

\* what create_message makes of each frame of FrameList
FrameBytes ==
   << create_message(ChainMagic, FrameList[1].command, FrameList[1].payload),
      create_message(ChainMagic, FrameList[2].command, FrameList[2].payload) >>

\* the bytes of one frame
BytesOf(f) == FrameBytes[CHOOSE i \in 1..Len(FrameList) : FrameList[i] = f]

RECURSIVE Wire(_)
\* the bytes of the frames, one after the other
Wire(frames) ==
   IF frames = <<>> THEN <<>>
   ELSE BytesOf(Head(frames)) \o Wire(Tail(frames))

\* a chunk arrives, after the attempts on the buffer so far have ended in
\* a failure, and is appended to the buffer
Arrive ==
   /\ ipc = "wait"
   /\ incoming # <<>>
   /\ \E n \in ArrivalSizes \cup {Len(incoming)} :
         /\ n <= Len(incoming)
         /\ pending' = pending \o SubSeq(incoming, 1, n)
         /\ incoming' = SubSeq(incoming, n + 1, Len(incoming))
   /\ ipc' = "parse"
   /\ UNCHANGED << sent, ires, got >>
   /\ UNCHANGED notReaderVars

\* parse_message on the buffer: a frame is taken off and the remainder is
\* tried again, a failure leaves the buffer for the next chunk
Attempt ==
   /\ ipc = "parse"
   /\ \E r \in { parse_message(pending, ChainMagic) } :
         /\ ires' = r
         /\ IF r.ok
              THEN /\ got' = Append(got, [command |-> r.command, payload |-> r.payload])
                   /\ pending' = r.rest
                   /\ ipc' = "parse"
            ELSE /\ got' = got
                 /\ pending' = pending
                 /\ ipc' = "wait"
   /\ UNCHANGED << sent, incoming >>
   /\ UNCHANGED notReaderVars

InitReader ==
   /\ ipc = "wait"
   /\ sent \in UNION { [1..k -> SentFrames] : k \in 1..MaxFrames }
   /\ incoming = Wire(sent)
   /\ pending = <<>>
   /\ ires = NoResult
   /\ got = <<>>
   /\ NotReaderIdle

NextReader == Arrive \/ Attempt

SpecReader == InitReader /\ [][NextReader]_vars

\* ------------------------------------------------------------------------
\* Addr payloads: parse_addr_payload on whatever bytes a peer sends
\* ------------------------------------------------------------------------

\* the number of complete entries a payload carries
MaxEntries == 2

\* the count field: its bytes and the number they stand for; the last one
\* is 2^64 - 1, more than any number of entries
AddrCounts ==
   { [b |-> <<0>>, n |-> 0], [b |-> <<1>>, n |-> 1], [b |-> <<2>>, n |-> 2],
     [b |-> <<3>>, n |-> 3], [b |-> <<253, 2, 0>>, n |-> 2],
     [b |-> <<255, 255, 255, 255, 255, 255, 255, 255, 255>>, n |-> 2147483647] }

\* count fields that end before their last byte, and no count at all
TruncatedCounts ==
   { <<>>, <<253>>, <<253, 1>>, <<254, 1, 0>>, <<255, 1, 0, 0, 0>> }

\* [count, entries, tail]: a count, complete entries of E1 and E3, and
\* either nothing or the first tail bytes of one more entry
AddrInputs ==
   { [count |-> c.b, n |-> c.n, entries |-> es, tail |-> t] :
        c \in AddrCounts,
        es \in UNION { [1..k -> {E1, E3}] : k \in 0..MaxEntries },
        t \in {0, 29} }
   \cup { [count |-> b, n |-> 0, entries |-> <<>>, tail |-> 0] :
             b \in TruncatedCounts }

\* the bytes of an input
AddrPayloadOf(in) ==
   in.count
   \o Concat([i \in 1..Len(in.entries) |->
                 peer_addr_entry(in.entries[i].ip, in.entries[i].port)])
   \o SubSeq(peer_addr_entry(E2.ip, E2.port), 1, in.tail)

ParseAddr ==
   /\ apc = "start"
   /\ ares' = parse_addr_payload(AddrPayloadOf(ain))
   /\ apc' = "parsed"
   /\ UNCHANGED ain
   /\ UNCHANGED notAddrVars

InitAddr ==
   /\ apc = "start"
   /\ ain \in AddrInputs
   /\ ares = NoResult
   /\ NotAddrIdle

NextAddr == ParseAddr

SpecAddr == InitAddr /\ [][NextAddr]_vars

\* ------------------------------------------------------------------------
\* C1
\* ------------------------------------------------------------------------

\* C1 (as stated): parse_message(create_message(magic, command, payload)
\* ++ r, magic) returns exactly (command, payload, r) for every ASCII
\* command of 1 to 12 characters.
C1_RoundTripAnyCommand ==
   (fpc = "parsed" /\ ftamper = <<>>) =>
      fres = [ok |-> TRUE, command |-> fin.command,
              payload |-> fin.payload, rest |-> fin.rest]

\* C1 (amended): the round trip returns exactly (command, payload, r) when
\* the command does not end in a NUL character.
C1_RoundTrip ==
   (fpc = "parsed" /\ ftamper = <<>> /\ fin.command[Len(fin.command)] # 0) =>
      fres = [ok |-> TRUE, command |-> fin.command,
              payload |-> fin.payload, rest |-> fin.rest]

C1_Witness ==
   /\ fpc = "parsed"
   /\ fin.command = CmdTwelve
   /\ fin.payload # <<>>
   /\ fin.rest # <<>>
   /\ fres.ok

\* ------------------------------------------------------------------------
\* C2
\* ------------------------------------------------------------------------

\* the payload of the frame as the line delivered it
FlippedPayload ==
   [fin.payload EXCEPT ![ftamper[1]] = FlipBitOf(fin.payload[ftamper[1]], ftamper[2])]

\* C2 (as stated): after any single bit of the payload of a frame built by
\* create_message is changed, parse_message fails with "Invalid checksum"
\* and never returns a result.
C2_AnyFlipIsRejected ==
   (fpc = "parsed" /\ ftamper # <<>>) =>
      (~fres.ok /\ fres.err = "Invalid checksum")

\* C2 (amended): after a single payload bit is changed, parse_message
\* either fails with "Invalid checksum" or returns the changed payload, and
\* it returns it only when the first four bytes of that payload's
\* double-SHA256 are the checksum of the header; it never returns the
\* original payload and never fails with another error.
C2_FlipRejectedUnlessChecksumCollides ==
   (fpc = "parsed" /\ ftamper # <<>>) =>
      IF fres.ok
        THEN /\ fres.payload = FlippedPayload
             /\ fres.payload # fin.payload
             /\ fres.command = fin.command
             /\ fres.rest = fin.rest
             /\ Slice(double_sha256(fres.payload), 0, 4) = Slice(buf, 20, 24)
        ELSE fres.err = "Invalid checksum"

C2_Witness ==
   /\ fpc = "parsed"
   /\ ftamper # <<>>
   /\ fin.payload = CollidingPayload
   /\ ~fres.ok
   /\ fres.err = "Invalid checksum"

\* ------------------------------------------------------------------------
\* C3
\* ------------------------------------------------------------------------

TwoMiB == 2 * 1024 * 1024

\* the buffer holds a header with the chain's magic that declares more than
\* 2 MiB of payload
DeclaresOversize ==
   /\ Len(buf) >= 24
   /\ Slice(buf, 0, 4) = fin.magic
   /\ NumGreaterInt(unpack_le(Slice(buf, 16, 20)), TwoMiB)

\* C3: whenever the header of a buffer with correct magic declares a
\* payload length above 2 MiB, parse_message fails with the
\* oversize-payload error, however many payload bytes the buffer holds.
C3_OversizeRejected ==
   (fpc = "tried" /\ DeclaresOversize) =>
      (~fres.ok /\ fres.err = "oversize-payload")

\* ------------------------------------------------------------------------
\* C4 - C7
\* ------------------------------------------------------------------------

\* the payload inside the message create_version_message returned
BuiltPayload == Slice(vmsg.msg, 24, Len(vmsg.msg))

\* C4: parsing the message built by create_version_message with
\* parse_message and then parse_version_payload yields the protocol
\* version, services, addr_recv (ip and port), addr_from, nonce, user agent,
\* start height and relay that were encoded, for an IPv4 and for a native
\* IPv6 recv_ip.
C4_VersionRoundTrip ==
   (vpc = "parsed" /\ vin.origin = "self") =>
      /\ vres.ok
      /\ vres.version = NumOfInt(vin.protocol_version)
      /\ vres.services = NumOfInt(SERVICES_NODE_NETWORK)
      /\ vres.addr_recv.ip = vin.recv_ip
      /\ vres.addr_recv.port = vin.recv_port
      /\ vres.addr_from =
            NetAddr(NumOfInt(SERVICES_NODE_NETWORK),
                    [fam |-> "v4", b |-> <<0, 0, 0, 0>>], 0, None)
      /\ vres.nonce = StripZeros(vin.nonce)
      /\ vres.user_agent = user_agent_bytes(vin.name)
      /\ vres.start_height = NumOfInt(vin.start_height)
      /\ vres.relay = TRUE

\* C5: the version payload built by create_version_message ends with a
\* relay byte, of value 1, if and only if protocol_version >= 70001; below
\* 70001 it ends with start_height.
C5_RelayEmission ==
   (vpc = "built" /\ vin.origin = "self") =>
      LET ua   == user_agent_bytes(vin.name)
          tail == Slice(BuiltPayload, 81 + Len(ua), Len(BuiltPayload))
      IN  IF vin.protocol_version >= 70001
            THEN tail = pack_le(NumOfInt(vin.start_height), 4) \o <<1>>
            ELSE tail = pack_le(NumOfInt(vin.start_height), 4)

\* C6: parse_version_payload on a well-formed version payload that ends
\* right after start_height succeeds with relay = true; with a relay byte
\* present, relay is true iff that byte is non-zero.
C6_RelayTolerance ==
   (vpc = "parsed" /\ vin.origin = "peer") =>
      /\ vres.ok
      /\ vres.relay = (IF vin.relay = <<>> THEN TRUE ELSE vin.relay[1] # 0)

\* C7: the user agent is written and read as a Bitcoin varint length
\* followed by that many raw bytes, for every length from 0 to 256 (from
\* 253 on in the 0xFD-prefixed 3-byte form), and the fields after it are
\* decoded from the bytes following the full string.
C7_UserAgentFraming ==
   /\ (vin.origin = "self" /\ vpc \in {"built", "failed"}) =>
         LET ua == user_agent_bytes(vin.name)
             vs == write_varint(Len(ua)) \o ua
         IN  /\ vmsg.ok
             /\ Slice(BuiltPayload, 80, 80 + Len(vs)) = vs
   /\ (vin.origin = "peer" /\ vpc = "parsed") =>
         /\ vres.ok
         /\ vres.user_agent = utf8_decode_replace(vin.ua)
         /\ vres.start_height = NumOfInt(vin.start_height)

\* ------------------------------------------------------------------------
\* C8
\* ------------------------------------------------------------------------

\* the bytes the integer at the offset takes: 1, or 3, 5, 9 after a first
\* byte of 0xFD, 0xFE, 0xFF
VarintWidth(first_byte) ==
   IF first_byte < 253 THEN 1
   ELSE IF first_byte = 253 THEN 3
   ELSE IF first_byte = 254 THEN 5
   ELSE 9

\* digit i (from 1) of a number written in base 256, lowest digit first
DigitOf(num, i) == IF i <= Len(num) THEN num[i] ELSE 0

\* v is the little-endian integer held in data[from .. from + n - 1]
\* (positions from 0)
IsLittleEndianOf(v, data, from, n) ==
   /\ Len(v) <= n
   /\ (v = <<>> \/ v[Len(v)] # 0)
   /\ \A i \in 1..n : DigitOf(v, i) = data[from + i]

VarintWhole ==
   /\ rin.offset < Len(rin.data)
   /\ rin.offset + VarintWidth(rin.data[rin.offset + 1]) <= Len(rin.data)

\* C8: when the integer at the offset is whole, read_varint returns the
\* first byte itself and offset + 1 if that byte is below 0xFD, and the
\* little-endian u16, u32, u64 after it with offset + 3, + 5, + 9 if it is
\* 0xFD, 0xFE, 0xFF; read_varint returns in no other case, so the offset
\* it returns is always that of the first byte after the integer.
C8_VarintDecoding ==
   rpc = "read" =>
      LET first_byte == rin.data[rin.offset + 1]
          width == VarintWidth(first_byte)
      IN  /\ rres.ok <=> VarintWhole
          /\ VarintWhole =>
                /\ rres.offset = rin.offset + width
                /\ IF width = 1
                     THEN IsLittleEndianOf(rres.value, <<first_byte>>, 0, 1)
                     ELSE IsLittleEndianOf(rres.value, rin.data,
                                           rin.offset + 1, width - 1)

\* a u16 form with a high byte and with bytes after it has been read
C8_Witness ==
   /\ rpc = "read"
   /\ rres.ok
   /\ rin.offset = 1
   /\ rin.data[2] = 253
   /\ Len(rin.data) > 4
   /\ rres.value = <<0, 255>>
   /\ rres.offset = 4

\* ------------------------------------------------------------------------
\* C9
\* ------------------------------------------------------------------------

CanonicalEndpoint(e) == Endpoint(canonicalize(e.ip), e.port)

\* the Candidates of the book ab whose canonical endpoint is that of e
CandidatesOf(ab, e) ==
   { x \in DOMAIN ab.book : CanonicalEndpoint(x) = CanonicalEndpoint(e) }

\* admitting the plain and the mapped form of e to the book as it stands,
\* in either order and once more each, gives one and the same book, with
\* one Candidate for e; none if e was unknown and the book is saturated
BothFormsOneCandidate(e) ==
   LET ab == [book |-> book, fifo |-> fifo, admissions |-> admissions]
       plain == e
       mapped == Endpoint(MappedText(e.ip), e.port)
       pm == admit(admit(ab, plain, "dns"), mapped, "dns")
       mp == admit(admit(ab, mapped, "dns"), plain, "dns")
   IN  /\ pm = mp
       /\ admit(pm, mapped, "dns") = pm
       /\ admit(pm, plain, "dns") = pm
       /\ mapped \notin DOMAIN pm.book
       /\ IF e \in DOMAIN book \/ admissions < admission_cap
            THEN CandidatesOf(pm, e) = {e}
            ELSE CandidatesOf(pm, e) = {}

OwnersOf(e) ==
   { w \in Workers : worker[w].pc \in {"session", "done"} /\ worker[w].endpoint = e }

\* C10: in every state of a pass at most max_concurrent Candidates are
\* in-flight, each in-flight Candidate is owned by exactly one worker, and
\* a worker owns nothing but an in-flight Candidate.
C10_BoundedConcurrency ==
   /\ Cardinality(InFlight) <= max_concurrent
   /\ \A e \in InFlight : Cardinality(OwnersOf(e)) = 1
   /\ \A w \in ActiveWorkers :
         /\ worker[w].endpoint \in DOMAIN book
         /\ book[worker[w].endpoint].state = "in-flight"

\* every worker owns a Candidate, one in its session and one about to
\* report
C10_Witness ==
   /\ phase = "running"
   /\ Cardinality(InFlight) = max_concurrent
   /\ ActiveWorkers = Workers
   /\ \E v, w \in Workers : worker[v].pc = "session" /\ worker[w].pc = "done"

\* ------------------------------------------------------------------------
\* C11
\* ------------------------------------------------------------------------

TerminalStates == {"reachable", "unreachable", "stale"}

\* the change of the Candidate of e in one step is one the classification
\* allows
MonotoneStep(e) ==
   /\ e \in DOMAIN book'
   /\ \/ book'[e].state = book[e].state
      \/ book[e].state = "unprobed" /\ book'[e].state = "in-flight"
      \/ book[e].state = "in-flight" /\ book'[e].state \in TerminalStates
      \/ /\ book[e].state = "in-flight"
         /\ book'[e].state = "unprobed"
         /\ e \notin scheduled
         /\ e \in scheduled'

\* C11: in every step of a pass every Candidate stays in the book and its
\* state stays as it is or goes from unprobed to in-flight, from in-flight
\* to reachable, unreachable or stale, or from in-flight to unprobed with
\* the endpoint put on the delay queue in the same step; so a reachable,
\* unreachable or stale Candidate never changes state again, whoever
\* announces its endpoint; and a Candidate enters the book unprobed.
C11_MonotoneClassification ==
   [][ /\ \A e \in DOMAIN book : MonotoneStep(e)
       /\ \A e \in DOMAIN book' \ DOMAIN book : book'[e].state = "unprobed"
     ]_vars

\* a worker is about to report an addr payload that announces E1 again,
\* while E1 is reachable and another Candidate waits on the delay queue
C11_Witness ==
   /\ E1 \in DOMAIN book
   /\ book[E1].state = "reachable"
   /\ scheduled \cup ready # {}
   /\ \E w \in Workers :
         /\ worker[w].pc = "done"
         /\ \E i \in 1..Len(worker[w].outcome.learned) :
               worker[w].outcome.learned[i].ip = E1.ip

\* ------------------------------------------------------------------------
\* C12
\* ------------------------------------------------------------------------

AttemptsBounded == \A e \in DOMAIN book : book[e].attempts <= max_retries + 1

\* C12 (as stated): under fair scheduling every running pass reaches
\* fix-point, and no attempt counter exceeds max_retries + 1.
C12_AlwaysFixpoint ==
   /\ []AttemptsBounded
   /\ (phase = "running") ~> fixpoint_reached

\* C12 (amended): under fair scheduling every running pass reaches
\* fix-point unless its deadline expires first and cancels it, and no
\* attempt counter exceeds max_retries + 1.
C12_FixpointUnlessDeadline ==
   /\ []AttemptsBounded
   /\ (phase = "running") ~> (fixpoint_reached \/ phase = "cancelling")

\* a running pass at fix-point after a Candidate has used up its retries
C12_Witness ==
   /\ phase = "running"
   /\ fixpoint_reached
   /\ Cardinality(DOMAIN book) >= 2
   /\ \E e \in DOMAIN book :
         /\ book[e].attempts = max_retries + 1
         /\ book[e].state = "unreachable"
         /\ book[e].last_error = "connect-timeout"

\* ------------------------------------------------------------------------
\* C13
\* ------------------------------------------------------------------------

\* sink.publish may be called: the book is at fix-point with no active
\* worker, or the pass deadline has expired
MayPublish ==
   \/ fixpoint_reached /\ ActiveWorkers = {}
   \/ phase = "cancelling"

\* C13: the Scheduler calls sink.publish at most once in a pass, each call
\* is made in a state where the book is at fix-point with no active worker
\* or the pass deadline has expired, and under fair scheduling every
\* running pass comes to its one call.
C13_PublishOnce ==
   /\ [](published <= 1)
   /\ [][published' # published =>
            /\ published = 0
            /\ published' = 1
            /\ MayPublish]_vars
   /\ (phase = "running") ~> (published = 1)

\* a pass retired at fix-point with every Candidate classified
C13_Witness ==
   /\ phase = "published"
   /\ published = 1
   /\ fixpoint_reached
   /\ Cardinality(DOMAIN book) >= 2
   /\ \A e \in DOMAIN book : book[e].state \in TerminalStates

\* ------------------------------------------------------------------------
\* C14, C15
\* ------------------------------------------------------------------------

\* the recognized options: the key of the YAML file, the environment
\* variable ("" where load_config reads none), the field of the
\* CrawlerConfig and the built-in default
Options ==
   { [key |-> "scanIntervalMinutes", env |-> "CRAWLER_INTERVAL_MINUTES",
      field |-> "interval_minutes", default |-> IntV(5)],
     [key |-> "maxConcurrentConnections", env |-> "MAX_CONCURRENT_CONNECTIONS",
      field |-> "max_concurrent", default |-> IntV(100)],
     [key |-> "connectionTimeoutSeconds", env |-> "CONNECTION_TIMEOUT_SECONDS",
      field |-> "connection_timeout", default |-> IntV(10)],
     [key |-> "extendedTimeoutSeconds", env |-> "EXTENDED_TIMEOUT_SECONDS",
      field |-> "extended_timeout", default |-> IntV(30)],
     [key |-> "maxRetries", env |-> "MAX_RETRIES",
      field |-> "max_retries", default |-> IntV(3)],
     [key |-> "initialRetryDelaySeconds", env |-> "INITIAL_RETRY_DELAY_SECONDS",
      field |-> "initial_retry_delay", default |-> IntV(1)],
     [key |-> "retryBackoffMultiplier", env |-> "RETRY_BACKOFF_MULTIPLIER",
      field |-> "retry_backoff_multiplier", default |-> IntV(2)],
     [key |-> "fallbackProtocolVersions", env |-> "",
      field |-> "fallback_protocol_versions", default |-> ListV(<<>>)],
     [key |-> "requireVersionForSave", env |-> "",
      field |-> "require_version_for_save", default |-> BoolV(TRUE)],
     [key |-> "pruneAfterHours", env |-> "PRUNE_AFTER_HOURS",
      field |-> "prune_after_hours", default |-> IntV(168)],
     [key |-> "getaddr_delay_ms", env |-> "GETADDR_DELAY_MS",
      field |-> "getaddr_delay_ms", default |-> IntV(100)] }

\* a number in tenths
Tenths(value) == IF value.t = "int" THEN 10 * value.v ELSE value.v

SameValue(a, b) ==
   IF a.t \in {"int", "float"} /\ b.t \in {"int", "float"}
     THEN Tenths(a) = Tenths(b)
     ELSE a = b

\* the value of the file for a key, if the file has one
FileValue(key) ==
   IF cin.file = None THEN None ELSE cin.file[1][key]

\* the environment value, else the value of the file, else the default
Preferred(o) ==
   IF o.env # "" /\ cin.env[o.env] # None
     THEN FloatV(float(cin.env[o.env][1]).v)
   ELSE IF FileValue(o.key) # None THEN FileValue(o.key)[1]
   ELSE o.default

\* C14: in the CrawlerConfig load_config returns, every recognized option
\* has the environment value when one is set, otherwise the value of the
\* YAML file when it has one, otherwise the built-in default.
C14_Precedence ==
   (cpc = "loaded" /\ cres.ok) =>
      \A o \in Options : SameValue(cres.config[o.field], Preferred(o))

\* maxRetries and retryBackoffMultiplier as configured
Configured(o) == Tenths(Preferred(o))

ConfiguredOutOfBounds ==
   \E o \in Options :
      \/ o.key = "maxRetries" /\ (Configured(o) < 0 \/ Configured(o) > 100)
      \/ o.key = "retryBackoffMultiplier" /\ Configured(o) < 10

\* C15: a CrawlerConfig returned by load_config has max_retries in 0..10
\* and retry_backoff_multiplier >= 1, and load_config fails when the
\* configured maxRetries is outside 0..10 or the configured
\* retryBackoffMultiplier is below 1.
C15_Bounds ==
   cpc = "loaded" =>
      /\ cres.ok =>
            /\ cres.config.max_retries.v \in 0..10
            /\ Tenths(cres.config.retry_backoff_multiplier) >= 10
      /\ ConfiguredOutOfBounds => ~cres.ok

\* ------------------------------------------------------------------------
\* C16
\* ------------------------------------------------------------------------

\* the last call failed: no client for an operation of the backend, the
\* backend raised, or the POST did not come back with 200 and a JSON body
CallFailed ==
   \/ client = None
   \/ din.backend = "raises"
   \/ din.op = "trigger_alert_processing" /\ ~din.aiohttp
   \/ din.op = "trigger_alert_processing" /\ din.http # "200-json"

\* C16: every operation of the Database sink returns and never raises; when
\* no client is configured or the backend or the HTTP call failed it returns
\* its failure value; with no client configured no backend call is made
C16_SinkNeverRaises ==
   /\ din.op \in DatabaseOps =>
         /\ dres.ok
         /\ CallFailed => dres.value = FailureValue(din.op)
   /\ client = None => dbackend = 0

\* ------------------------------------------------------------------------
\* C17
\* ------------------------------------------------------------------------

\* neither the City nor the ASN database knows the IP
Unknown(ip) ==
   /\ city(ip).kind = "AddressNotFoundError"
   /\ asn(ip).kind = "AddressNotFoundError"

\* C17 as stated: lookup(ip) returns a record and never raises, and when
\* the IP is unknown to the database or no reader is available every field
\* of the record is null
C17_Total ==
   gin.op = "lookup" =>
      /\ gres.ok
      /\ (Unknown(gin.ip) \/ reader = None) => gres.value = NullRecord

\* C17: lookup(ip) returns a record and never raises; the record is all
\* null when the IP is unknown to the databases, and when no reader is
\* available and the IP is not in the cache
C17_TotalUnlessCached ==
   gin.op = "lookup" =>
      /\ gres.ok
      /\ Unknown(gin.ip) => gres.value = NullRecord
      /\ (reader = None /\ ~InCache(cache, gin.ip)) => gres.value = NullRecord

\* an IP that is not cached was looked up after close(), with records of
\* earlier lookups still in the cache, and the null record came back
C17_Witness ==
   /\ gin.op = "lookup"
   /\ reader = None
   /\ cache # <<>>
   /\ ~InCache(cache, gin.ip)
   /\ gres = Return(NullRecord)

\* ------------------------------------------------------------------------
\* C18
\* ------------------------------------------------------------------------

\* the step is a lookup that makes the cache exceed cache_cap entries
Overflows ==
   /\ gin'.op = "lookup"
   /\ reader # None
   /\ ~InCache(cache, gin'.ip)
   /\ Len(cache) = cache_cap

\* C18: after every lookup the cache holds at most cache_cap entries; the
\* lookup that makes it exceed cache_cap removes evict_count entries before
\* it returns, and returns the record of its IP, which stays cached
C18_CacheCap ==
   /\ [](Len(cache) <= cache_cap)
   /\ [][Overflows =>
            /\ gin'.evicted = evict_count
            /\ Len(cache') = cache_cap + 1 - evict_count
            /\ gres' = Return(fresh_record(asn_reader, gin'.ip))
            /\ InCache(cache', gin'.ip)
            /\ Cached(cache', gin'.ip) = gres'.value]_vars

\* a lookup has overflowed the cache, and its record is returned and cached
C18_Witness ==
   /\ gin.op = "lookup"
   /\ gin.evicted = evict_count
   /\ Len(cache) = cache_cap + 1 - evict_count
   /\ gres.ok
   /\ InCache(cache, gin.ip)
   /\ Cached(cache, gin.ip) = gres.value

\* ------------------------------------------------------------------------
\* C19
\* ------------------------------------------------------------------------

\* the IPs whose last lookup is oldest, as many as an overflow removes
LeastRecentlyUsed == { recent[i] : i \in 1..evict_count }

\* C19: when the cache overflows, the entries removed are the ones whose
\* last lookup (hit or insertion) is oldest
C19_EvictsLeastRecentlyUsed ==
   [][(gin'.op = "lookup" /\ gin'.evicted > 0 /\ cache' # cache) =>
         CacheKeys(cache) \ CacheKeys(cache') = LeastRecentlyUsed]_vars

\* ------------------------------------------------------------------------
\* C20
\* ------------------------------------------------------------------------

\* the frames still to be returned
Outstanding == SubSeq(sent, Len(got) + 1, Len(sent))

\* the buffer holds fewer bytes than the next frame, or nothing is left
ProperPrefix ==
   \/ Outstanding = <<>>
   \/ Len(pending) < Len(BytesOf(Head(Outstanding)))

\* C20: an attempt on a proper prefix of the next frame fails with
\* "Message too short" or "Incomplete message" and with nothing else, a
\* failed attempt leaves the buffer as it was, the frames returned are the
\* frames sent in their order, and the attempt that returns the last frame
\* returns the empty remainder
C20_IncrementalParsing ==
   /\ [](/\ Len(got) <= Len(sent)
         /\ got = SubSeq(sent, 1, Len(got))
         /\ pending \o incoming = Wire(Outstanding)
         /\ got = sent => (pending = <<>> /\ incoming = <<>>))
   /\ [][ipc = "parse" =>
            IF ProperPrefix
              THEN /\ ~ires'.ok
                   /\ ires'.err \in {"Message too short", "Incomplete message"}
                   /\ pending' = pending
                   /\ got' = got
            ELSE /\ ires'.ok
                 /\ [command |-> ires'.command, payload |-> ires'.payload]
                       = Head(Outstanding)
                 /\ (Len(got') = Len(sent) => ires'.rest = <<>>)]_vars

\* a peer sent MaxFrames frames, the first and the last different; all of
\* them were returned in order and the last attempt returned the empty
\* remainder
C20_Witness ==
   /\ Len(sent) = MaxFrames
   /\ sent[1] # sent[Len(sent)]
   /\ got = sent
   /\ ires.ok
   /\ ires.rest = <<>>
   /\ pending = <<>>

\* ------------------------------------------------------------------------
\* C21
\* ------------------------------------------------------------------------

\* C21: parse_message on a buffer of fewer than 24 bytes fails with
\* "Message too short" whatever its first bytes are, and on a buffer of at
\* least 24 bytes whose first 4 bytes are not the chain magic it fails with
\* "Invalid magic bytes" whatever the declared length, the checksum and the
\* payload bytes present
C21_BadMagicFirst ==
   fpc = "tried" =>
      /\ Len(buf) < 24 => fres = Raise("Message too short")
      /\ (Len(buf) >= 24 /\ Slice(buf, 0, 4) # fin.magic) =>
            fres = Raise("Invalid magic bytes")

\* a header with another magic, a declared length of more than the bytes
\* present and a zero checksum was tried and failed on its magic
C21_Witness ==
   /\ fpc = "tried"
   /\ Len(buf) >= 24
   /\ Slice(buf, 0, 4) # fin.magic
   /\ IntLessNum(Len(buf) - 24, unpack_le(Slice(buf, 16, 20)))
   /\ Slice(buf, 20, 24) = <<0, 0, 0, 0>>
   /\ fres = Raise("Invalid magic bytes")

\* ------------------------------------------------------------------------
\* C22
\* ------------------------------------------------------------------------

\* the NetAddr an entry of peer_addr_entry stands for
EntryOf(e) ==
   NetAddr(NumOfInt(SERVICES_NODE_NETWORK),
           IF e.ip.fam = "v4" THEN e.ip ELSE inet_ntop6(e.ip.b),
           e.port, Some(NumOfInt(1700000000)))

\* the first min(count, complete entries) entries, in wire order
ExpectedAddresses(in) ==
   LET k == IF in.n < Len(in.entries) THEN in.n ELSE Len(in.entries)
   IN  [i \in 1..k |-> EntryOf(in.entries[i])]

\* C22: for every payload parse_addr_payload returns without raising the
\* first min(count, complete entries) addresses in wire order, each with
\* its timestamp, services, IP and port
C22_AddrTotal ==
   apc = "parsed" =>
      /\ ares.ok
      /\ ares.addresses = ExpectedAddresses(ain)

====
